---- MODULE Spec2Model ----
(***************************************************************************)
(* A model of the E4X object model of src/src/avm2/natives/xml.ts: the     *)
(* XML node tree (ASXML), the XMLList view (ASXMLList), the serializer     *)
(* (toXMLString, the escaping functions, generateUniquePrefix) and the     *)
(* markup parser (XMLParser).                                              *)
(*                                                                         *)
(* Strings are sequences of one-character strings, so that escaping,       *)
(* serializing and parsing work on characters.  Nodes live in an arena     *)
(* indexed 1..MaxNodes; a reference is an index and None (0) is null.      *)
(***************************************************************************)
EXTENDS Integers, Sequences, FiniteSets, TLC

VARIABLES nodes, err, last, steps, lists, sin, sout, doc, copied, settings,
          loaders, loadQueue, dispatched, turn

vars == <<nodes, err, last, steps, lists, sin, sout, doc, copied, settings,
          loaders, loadQueue, dispatched, turn>>

\* the state of the flash.display.Loader class
loaderVars == <<loaders, loadQueue, dispatched, turn>>

\* no Loader was constructed
NoLoaders ==
  /\ loaders = <<>>
  /\ loadQueue = <<>>
  /\ dispatched = <<>>
  /\ turn = 0

(***************************************************************************)
(* Bounds of the model.                                                    *)
(***************************************************************************)
\* size of the node arena
MaxNodes == 7

\* number of operations applied to a tree in one behaviour
MaxOps == 2

(***************************************************************************)
(* ASXMLKind.                                                              *)
(***************************************************************************)
Unknown == 0

Element == 1

Attribute == 2

Text == 3

Comment == 4

ProcessingInstruction == 5

\* null (a missing reference)
None == 0

\* the value undefined of a prefix that is not resolved yet
Undef == <<"<undefined>">>

\* the uri null of a QName with ANY_NAMESPACE
NullUri == <<"<null>">>

\* ASXML.defaultNamespace
defaultNamespace == <<>>

NodeIds == 1..MaxNodes

(***************************************************************************)
(* Sequences as JavaScript arrays: indices are 0-based.                    *)
(***************************************************************************)
At(s, i) == s[i + 1]

InsertAt(s, i, v) == SubSeq(s, 1, i) \o <<v>> \o SubSeq(s, i + 1, Len(s))

RemoveAt(s, i) == SubSeq(s, 1, i) \o SubSeq(s, i + 2, Len(s))

\* a[i] = v for i <= a.length
SetAt(s, i, v) == IF i >= Len(s) THEN s \o <<v>> ELSE [s EXCEPT ![i + 1] = v]

\* Array.prototype.indexOf: the first index holding v, or -1
IndexOf(s, v) ==
  IF \E k \in 1..Len(s) : s[k] = v
  THEN (CHOOSE k \in 1..Len(s) : s[k] = v /\ \A m \in 1..(k - 1) : s[m] # v) - 1
  ELSE -1

Range(s) == {s[k] : k \in 1..Len(s)}

(***************************************************************************)
(* Names and namespaces.                                                   *)
(***************************************************************************)
\* new ASNamespace(prefix, uri)
ASNamespace(prefix, uri) ==
  [prefix |-> IF uri = <<>> THEN <<>> ELSE prefix, uri |-> uri]

\* the namespace argument undefined
NoNamespace == [prefix |-> Undef, uri |-> Undef]

\* new ASQName(namespace, name, isAttribute): an undefined namespace is the
\* default namespace, or null for the name "*"
ASQName(namespace, name, isAttribute) ==
  IF namespace = NoNamespace
  THEN IF name = <<"*">>
       THEN [localName |-> name, uri |-> NullUri, prefix |-> Undef, attr |-> isAttribute]
       ELSE [localName |-> name, uri |-> defaultNamespace, prefix |-> <<>>,
             attr |-> isAttribute]
  ELSE [localName |-> name, uri |-> namespace.uri, prefix |-> namespace.prefix,
        attr |-> isAttribute]

\* ASQName.equals on two QNames
QNameEquals(a, b) == a.uri = b.uri /\ a.localName = b.localName

\* the flags ANY_NAME and ANY_NAMESPACE of a name
IsAnyName(n) == n.localName = <<"*">>

IsAnyNamespace(n) == n.uri = NullUri

(***************************************************************************)
(* Nodes.  The field name is the value of the ASQName object in _name and  *)
(* the field qn tells which ASQName object that is: 0 is the object made   *)
(* by init for this very node, another number is an object that came from  *)
(* elsewhere (see NameObj).                                                *)
(***************************************************************************)
NoName == [localName |-> <<>>, uri |-> <<>>, prefix |-> <<>>, attr |-> FALSE]

FreeNode ==
  [kind |-> Unknown, name |-> NoName, qn |-> 0, value |-> <<>>, parent |-> None,
   children |-> <<>>, attributes |-> <<>>, ns |-> <<>>]

\* ASXML.init, called by createXML(kind, uri, name, prefix)
init(kind, uri, name, prefix) ==
  [kind |-> kind,
   name |-> ASQName(IF (uri # <<>> /\ uri # NullUri) \/ (prefix # Undef /\ prefix # <<>>)
                    THEN ASNamespace(prefix, uri) ELSE NoNamespace,
                    name, kind = Attribute),
   qn |-> 0, value |-> <<>>, parent |-> None, children |-> <<>>, attributes |-> <<>>,
   ns |-> <<>>]

Free(h) == {n \in NodeIds : h[n].kind = Unknown}

\* the arena slot a new ASXML gets
Fresh(h) == CHOOSE n \in Free(h) : \A m \in Free(h) : n <= m

Ok(h) == [h |-> h, err |-> "none"]

Throw(h, e) == [h |-> h, err |-> e]

\* ASXML.length
length(h, x) == Len(h[x].children)

IsLeafKind(k) == k \in {Text, Comment, ProcessingInstruction, Attribute}

\* the identity of the ASQName object in _name of n: the object init made
\* for the node m has the identity m
NameObj(h, n) == IF h[n].qn = 0 THEN n ELSE h[n].qn

(***************************************************************************)
(* The walk "while (a) { if (a === v) throw; a = a._parent; }" of insert   *)
(* and replace, with fuel: a walk that runs out of fuel is on a cycle of   *)
(* parent references and never ends.                                       *)
(***************************************************************************)
RECURSIVE AncestorWalk(_, _, _, _)
AncestorWalk(h, a, v, fuel) ==
  IF a = None THEN "end"
  ELSE IF a = v THEN "found"
  ELSE IF fuel = 0 THEN "diverges"
  ELSE AncestorWalk(h, h[a].parent, v, fuel - 1)

\* insert without the walk over the ancestors of self
insertUnguarded(h, self, p, v) ==
  IF IsLeafKind(h[self].kind) THEN Ok(h)
  ELSE Ok([h EXCEPT ![v].parent = self,
                    ![self].children = InsertAt(h[self].children, p, v)])

\* 9.1.1.11 [[Insert]] (P, V), for an index p <= length and a node v
insert(h, self, p, v) ==
  IF IsLeafKind(h[self].kind) THEN Ok(h)
  ELSE IF AncestorWalk(h, self, v, MaxNodes) = "found" THEN Throw(h, "Error")
  ELSE Ok([h EXCEPT ![v].parent = self,
                    ![self].children = InsertAt(h[self].children, p, v)])

\* ASXML.deleteByIndex
deleteByIndex(h, self, p) ==
  IF p < Len(h[self].children)
  THEN LET c == At(h[self].children, p)
           h1 == [h EXCEPT ![c].parent = None]
       IN  Ok([h1 EXCEPT ![self].children = RemoveAt(h[self].children, p)])
  ELSE Ok(h)

\* the private ASXML.removeByIndex: children[index] is dereferenced, so an
\* index at the end of the array is a TypeError
removeByIndex(h, self, index) ==
  LET c == At(h[self].children, index)
      h1 == [h EXCEPT ![c].parent = None]
  IN  [h1 EXCEPT ![self].children = RemoveAt(h[self].children, index)]

\* Array.prototype.splice(index, 1); a negative index counts from the end
Splice1(s, index) ==
  IF index >= 0 THEN RemoveAt(s, index)
  ELSE IF Len(s) = 0 THEN s ELSE SubSeq(s, 1, Len(s) - 1)

\* ASXML.appendChild; release is the build flag that disables assert
appendChild(h, self, child, release) ==
  LET par == h[child].parent
      index == IF par # None THEN IndexOf(h[par].children, child) ELSE 0
  IN  IF par # None /\ index < 0 /\ ~release THEN Throw(h, "AssertionError")
      ELSE LET h1 == IF par # None
                     THEN [h EXCEPT ![par].children = Splice1(h[par].children, index)]
                     ELSE h
               h2 == [h1 EXCEPT ![self].children = Append(h1[self].children, child)]
           IN  Ok([h2 EXCEPT ![child].parent = self])

\* values handed to replace and setProperty: an XML node or a primitive string
XmlV(n) == [t |-> "xml", id |-> n, s |-> <<>>]

StrV(s) == [t |-> "str", id |-> None, s |-> s]

\* all paths down from x end within fuel steps (no node below x is its own
\* descendant), so that the recursions over children end
RECURSIVE Tame(_, _, _)
Tame(h, x, fuel) ==
  /\ fuel > 0
  /\ \A c \in Range(h[x].children) : Tame(h, c, fuel - 1)

\* ASXML.hasSimpleContent
hasSimpleContent(h, x) ==
  IF h[x].kind \in {Comment, ProcessingInstruction} THEN FALSE
  ELSE IF h[x].kind # Element THEN TRUE
  ELSE \A c \in Range(h[x].children) : h[c].kind # Element

\* ASXML.hasComplexContent
hasComplexContent(h, x) ==
  IF IsLeafKind(h[x].kind) THEN FALSE
  ELSE \E c \in Range(h[x].children) : h[c].kind = Element

\* 9.1.1.12 [[Replace]] (P, V) for an index p; s is ToString(v) for a v that
\* is not an element, text, comment or processing instruction
replace(h, self, p, v, s) ==
  IF IsLeafKind(h[self].kind) THEN Ok(h)
  ELSE IF /\ v.t = "xml"
          /\ h[v.id].kind = Element
          /\ AncestorWalk(h, self, v.id, MaxNodes) = "found"
       THEN Throw(h, "Error")
  ELSE LET i == IF p >= length(h, self) THEN length(h, self) ELSE p
           h1 == IF i < length(h, self)
                 THEN [h EXCEPT ![At(h[self].children, i)].parent = None]
                 ELSE h
       IN  IF v.t = "xml" /\
              h[v.id].kind \in {Element, Text, Comment, ProcessingInstruction}
           THEN LET h2 == [h1 EXCEPT ![v.id].parent = self]
                IN  Ok([h2 EXCEPT ![self].children = SetAt(h1[self].children, i, v.id)])
           ELSE LET t == Fresh(h1)
                    h2 == [h1 EXCEPT ![t] = [init(Text, <<>>, <<>>, Undef) EXCEPT
                                               !.parent = self, !.value = s]]
                IN  Ok([h2 EXCEPT ![self].children = SetAt(h1[self].children, i, t)])

(***************************************************************************)
(* 13.4.4.26 normalize.                                                    *)
(***************************************************************************)
\* step 2.b.i: the Text nodes that follow child, from index i on, are merged
\* into child and removed
RECURSIVE MergeRun(_, _, _, _)
MergeRun(h, self, child, i) ==
  IF i < length(h, self) /\ h[At(h[self].children, i)].kind = Text
  THEN LET nextChild == At(h[self].children, i)
           h1 == [h EXCEPT ![child].value = h[child].value \o h[nextChild].value]
       IN  MergeRun(removeByIndex(h1, self, i), self, child, i)
  ELSE h

\* step 2.b.ii as the code has it: i was advanced past child before the
\* merge, so removeByIndex(i) takes the node after the empty Text node
DropEmpty(h, self, i) ==
  IF i < length(h, self) THEN Ok(removeByIndex(h, self, i))
  ELSE Throw(h, "TypeError")

RECURSIVE normalize(_, _), NormalizeFrom(_, _, _)
\* the loop of normalize from index i on
NormalizeFrom(h, self, i) ==
  IF i >= length(h, self) THEN Ok(h)
  ELSE LET child == At(h[self].children, i)
       IN  IF h[child].kind = Element
           THEN LET r == normalize(h, child)
                IN  IF r.err # "none" THEN r ELSE NormalizeFrom(r.h, self, i + 1)
           ELSE IF h[child].kind = Text
           THEN LET h1 == MergeRun(h, self, child, i + 1)
                IN  IF Len(h1[child].value) = 0
                    THEN LET r == DropEmpty(h1, self, i + 1)
                         IN  IF r.err # "none" THEN r
                             ELSE NormalizeFrom(r.h, self, i + 1)
                    ELSE NormalizeFrom(h1, self, i + 2)
           ELSE NormalizeFrom(h, self, i + 1)

normalize(h, self) == NormalizeFrom(h, self, 0)

(***************************************************************************)
(* 9.1.1.7 [[DeepCopy]].                                                   *)
(***************************************************************************)
\* the number of nodes a deep copy of x creates
RECURSIVE CopySize(_, _), SumSizes(_, _)
SumSizes(h, s) == IF s = <<>> THEN 0 ELSE CopySize(h, Head(s)) + SumSizes(h, Tail(s))

CopySize(h, x) == 1 + SumSizes(h, h[x].attributes) + SumSizes(h, h[x].children)

RECURSIVE deepCopy(_, _), CopyEach(_, _, _, _)
\* Array.map of attributes or children: each member is copied and the copy's
\* parent set to the clone
CopyEach(h, s, clone, acc) ==
  IF s = <<>> THEN [h |-> h, ids |-> acc]
  ELSE LET r == deepCopy(h, Head(s))
       IN  CopyEach([r.h EXCEPT ![r.id].parent = clone], Tail(s), clone,
                    Append(acc, r.id))

deepCopy(h, x) ==
  LET clone == Fresh(h)
      h0 == [h EXCEPT ![clone] =
               [kind |-> h[x].kind, name |-> h[x].name, qn |-> NameObj(h, x),
                value |-> IF h[x].kind = Element THEN <<>> ELSE h[x].value,
                parent |-> None, children |-> <<>>, attributes |-> <<>>,
                ns |-> IF h[x].kind = Element THEN h[x].ns ELSE <<>>]]
  IN  IF h[x].kind = Element
      THEN LET ra == CopyEach(h0, h[x].attributes, clone, <<>>)
               rc == CopyEach(ra.h, h[x].children, clone, <<>>)
           IN  [h |-> [rc.h EXCEPT ![clone].attributes = ra.ids,
                                   ![clone].children = rc.ids],
                id |-> clone]
      ELSE [h |-> h0, id |-> clone]

(***************************************************************************)
(* 9.1.1.1 [[Get]] and 9.1.1.2 [[Put]].                                    *)
(***************************************************************************)
\* a match test that takes elements only, whatever the wildcards
MatchesElementOnly(h, c, n) ==
  /\ h[c].kind = Element
  /\ IsAnyName(n) \/ h[c].name.localName = n.localName
  /\ IsAnyNamespace(n) \/ h[c].name.uri = n.uri

\* the test of [[Get]], [[Put]] and hasProperty on the child c for the name n
MatchesChild(h, c, n) ==
  /\ IsAnyName(n) \/ (h[c].kind = Element /\ h[c].name.localName = n.localName)
  /\ IsAnyNamespace(n) \/ (h[c].kind = Element /\ h[c].name.uri = n.uri)

\* the test of [[Get]] on the attribute a for the name n
MatchesAttribute(h, a, n) ==
  /\ IsAnyName(n) \/ h[a].name.localName = n.localName
  /\ IsAnyNamespace(n) \/ h[a].name.uri = n.uri

RECURSIVE Filter(_, _, _, _)
Filter(h, s, n, isAttribute) ==
  IF s = <<>> THEN <<>>
  ELSE (IF (IF isAttribute THEN MatchesAttribute(h, Head(s), n)
            ELSE MatchesChild(h, Head(s), n))
        THEN <<Head(s)>> ELSE <<>>) \o Filter(h, Tail(s), n, isAttribute)

\* ASXML.getProperty for a name: the members of the XMLList it returns
getProperty(h, self, n, isAttribute) ==
  IF isAttribute \/ n.attr
  THEN Filter(h, h[self].attributes, n, TRUE)
  ELSE Filter(h, h[self].children, n, FALSE)

\* the string c of step 3 of [[Put]] for a primitive, a text or an attribute
CoerceString(h, v) == IF v.t = "str" THEN v.s ELSE h[v.id].value

IsPrimitive(h, v) == v.t = "str" \/ h[v.id].kind \in {Text, Attribute}

\* step 6 of [[Put]] that keeps the duplicates: the first attribute named n
\* gets the value c, and a new attribute is appended if there is none
putAttributeKeepAll(h, self, n, c) ==
  LET attrs == h[self].attributes
      hits == {k \in 1..Len(attrs) : QNameEquals(h[attrs[k]].name, n)}
  IN  IF hits = {}
      THEN LET a == Fresh(h)
               h2 == [h EXCEPT ![a] = [init(Attribute, n.uri, n.localName, Undef)
                                         EXCEPT !.parent = self, !.value = c]]
           IN  Ok([h2 EXCEPT ![self].attributes = Append(h[self].attributes, a)])
      ELSE Ok([h EXCEPT ![attrs[CHOOSE k \in hits : \A m \in hits : k <= m]].value = c])

\* step 6 of [[Put]]: the first attribute named n gets the value c, the other
\* attributes named n are dropped, and a new attribute is appended if none is
putAttribute(h, self, n, c) ==
  LET attrs == h[self].attributes
      hits == {k \in 1..Len(attrs) : QNameEquals(h[attrs[k]].name, n)}
      first == IF hits = {} THEN 0 ELSE CHOOSE k \in hits : \A m \in hits : k <= m
      dropped == {attrs[k] : k \in hits \ {first}} \ {attrs[k] : k \in {first} \ {0}}
      keep(k) == k \notin hits \/ k = first
      RECURSIVE Kept(_)
      Kept(k) == IF k > Len(attrs) THEN <<>>
                 ELSE (IF keep(k) THEN <<attrs[k]>> ELSE <<>>) \o Kept(k + 1)
      h1 == [m \in NodeIds |->
               IF m \in dropped THEN [h[m] EXCEPT !.parent = None]
               ELSE IF m = self THEN [h[m] EXCEPT !.attributes = Kept(1)]
               ELSE h[m]]
  IN  IF first = 0
      THEN LET a == Fresh(h1)
               h2 == [h1 EXCEPT ![a] = [init(Attribute, n.uri, n.localName, Undef)
                                          EXCEPT !.parent = self, !.value = c]]
           IN  Ok([h2 EXCEPT ![self].attributes = Append(h1[self].attributes, a)])
      ELSE Ok([h1 EXCEPT ![attrs[first]].value = c])

\* a reverse scan that keeps the first match it finds and deletes the others
RECURSIVE PutScanKeepFirstFound(_, _, _, _, _)
PutScanKeepFirstFound(h, self, n, k, i) ==
  IF k < 0 THEN [h |-> h, i |-> i]
  ELSE IF MatchesChild(h, At(h[self].children, k), n)
       THEN IF i >= 0
            THEN PutScanKeepFirstFound(deleteByIndex(h, self, k).h, self, n, k - 1, i - 1)
            ELSE PutScanKeepFirstFound(h, self, n, k - 1, k)
       ELSE PutScanKeepFirstFound(h, self, n, k - 1, i)

\* the reverse scan of [[Put]]: every match found after the first one (at a
\* lower index) deletes the match found before it; i = -1 is undefined
RECURSIVE PutScan(_, _, _, _, _)
PutScan(h, self, n, k, i) ==
  IF k < 0 THEN [h |-> h, i |-> i]
  ELSE IF MatchesChild(h, At(h[self].children, k), n)
       THEN PutScan(IF i >= 0 THEN deleteByIndex(h, self, i).h ELSE h, self, n, k - 1, k)
       ELSE PutScan(h, self, n, k - 1, i)

\* 9.1.1.13 [[AddInScopeNamespace]]: a declaration with the prefix of ns and
\* another uri is replaced by ns; ns is not added otherwise.  The assignments
\* to _name.prefix, a property with a getter only, have no effect.
addInScopeNamespace(h, self, ns) ==
  IF IsLeafKind(h[self].kind) THEN h
  ELSE IF ns.prefix = Undef THEN h
  ELSE IF ns.prefix = <<>> /\ h[self].name.uri = <<>> THEN h
  ELSE IF \E k \in 1..Len(h[self].ns) :
            h[self].ns[k].prefix = ns.prefix /\
            (LET last2 == CHOOSE m \in 1..Len(h[self].ns) :
                            /\ h[self].ns[m].prefix = ns.prefix
                            /\ \A j \in (m + 1)..Len(h[self].ns) :
                                 h[self].ns[j].prefix # ns.prefix
             IN  h[self].ns[last2].uri # ns.uri)
       THEN [h EXCEPT ![self].ns =
               [k \in 1..Len(h[self].ns) |->
                  IF h[self].ns[k].prefix = ns.prefix THEN ns ELSE h[self].ns[k]]]
       ELSE h

\* steps 7-13 of [[Put]] for an element name n and the value v
putElement(h, self, n, v) ==
  LET isStr == IsPrimitive(h, v)
      c == CoerceString(h, v)
      primitiveAssign == isStr /\ ~IsAnyName(n)
      rc == IF isStr THEN [h |-> h, id |-> None] ELSE deepCopy(h, v.id)
      scan == PutScan(rc.h, self, n, length(rc.h, self) - 1, -1)
      i == IF scan.i < 0 THEN length(scan.h, self) ELSE scan.i
      name == IF n.uri = NullUri
              THEN ASQName(ASNamespace(<<>>, defaultNamespace), n.localName, FALSE)
              ELSE n
      h1 == IF scan.i < 0 /\ primitiveAssign
            THEN LET y == Fresh(scan.h)
                     h0 == [scan.h EXCEPT ![y] =
                              [init(Element, name.uri, name.localName, name.prefix)
                                 EXCEPT !.parent = self]]
                 IN  addInScopeNamespace(replace(h0, self, i, XmlV(y), <<>>).h, y,
                                         ASNamespace(name.prefix, name.uri))
            ELSE scan.h
  IN  IF primitiveAssign
      THEN LET t == At(h1[self].children, i)
               h2 == [h1 EXCEPT ![t].children = <<>>]
           IN  IF c # <<>> THEN replace(h2, t, 0, StrV(c), c) ELSE Ok(h2)
      ELSE replace(h1, self, i, IF isStr THEN StrV(c) ELSE XmlV(rc.id), c)

\* 9.1.1.2 [[Put]] (P, V) for a name n that is not an index
setProperty(h, self, n, isAttribute, v) ==
  IF IsLeafKind(h[self].kind) THEN Ok(h)
  ELSE IF isAttribute THEN putAttribute(h, self, n, CoerceString(h, v))
  ELSE putElement(h, self, n, v)

\* the arena slots a [[Put]] may take
PutNeeds(h, n, isAttribute, v) ==
  IF isAttribute THEN 1
  ELSE IF IsPrimitive(h, v) THEN 2
  ELSE CopySize(h, v.id)

(***************************************************************************)
(* 13.4.4.35 setName and 13.4.4.2 addNamespace.                            *)
(***************************************************************************)
\* new ASNamespace(uriValue) for a string
ASNamespace1(uri) == [prefix |-> IF uri = <<>> THEN <<>> ELSE Undef, uri |-> uri]

\* the arguments of setName: a string, the ASQName object that m.name()
\* returns, or an ASQName object nobody else holds
StrN(s) == [t |-> "str", s |-> s, id |-> None, q |-> NoName]

NodeN(m) == [t |-> "node", s |-> <<>>, id |-> m, q |-> NoName]

NewN(q) == [t |-> "new", s |-> <<>>, id |-> None, q |-> q]

\* the identity of an ASQName object made now
FreshNameObj(h) ==
  MaxNodes + (CHOOSE k \in 1..(MaxNodes + 1) :
                /\ \A m \in NodeIds : h[m].qn # MaxNodes + k
                /\ \A j \in 1..(k - 1) : \E m \in NodeIds : h[m].qn = MaxNodes + j)

\* ASQName.setUri on the object obj: every node that holds obj sees the uri
setUri(h, obj, uri) ==
  [m \in NodeIds |->
     IF h[m].kind # Unknown /\ NameObj(h, m) = obj
     THEN [h[m] EXCEPT !.name.uri = uri]
     ELSE h[m]]

\* ASXML.setName: new ASQName(name_) is name_ itself when name_ is an ASQName,
\* so a processing instruction sets the uri of the caller's object and the
\* node holds that object from now on
setName(h, self, a) ==
  IF h[self].kind \in {Text, Comment} THEN Ok(h)
  ELSE LET q0 == IF a.t = "str" THEN ASQName(NoNamespace, a.s, FALSE)
                 ELSE IF a.t = "node" THEN h[a.id].name
                 ELSE IF a.q.uri = NullUri THEN ASQName(NoNamespace, a.q.localName, FALSE)
                 ELSE a.q
           obj == IF a.t = "node" THEN NameObj(h, a.id) ELSE FreshNameObj(h)
           isPI == h[self].kind = ProcessingInstruction
           h1 == IF isPI /\ a.t = "node" THEN setUri(h, obj, <<>>) ELSE h
           q == IF isPI THEN [q0 EXCEPT !.uri = <<>>] ELSE q0
           h2 == [h1 EXCEPT ![self].name = q,
                            ![self].qn = IF obj = self THEN 0 ELSE obj]
       IN  IF h[self].kind = Attribute
           THEN IF h[self].parent = None THEN Ok(h2)
                ELSE Ok(addInScopeNamespace(h2, h[self].parent, ASNamespace1(q.uri)))
           ELSE Ok(addInScopeNamespace(h2, self, ASNamespace1(q.uri)))

\* ASXML.addNamespace with _addInScopeNamespaces; a node that is no element
\* has no _inScopeNamespaces to search
addNamespace(h, self, ns) ==
  IF h[self].kind # Element THEN Throw(h, "TypeError")
  ELSE IF \E k \in 1..Len(h[self].ns) :
            h[self].ns[k].uri = ns.uri /\ h[self].ns[k].prefix = ns.prefix
       THEN Ok(h)
  ELSE Ok([h EXCEPT ![self].ns = Append(h[self].ns, ns)])

(***************************************************************************)
(* 10.1 ToString, 11.5.1 equality and 9.1.1.9 [[Equals]].                  *)
(***************************************************************************)
RECURSIVE ConcatValues(_, _)
\* the loop of toString over the children of a node with simple content
ConcatValues(h, s) ==
  IF s = <<>> THEN <<>>
  ELSE (IF h[Head(s)].kind \in {Comment, ProcessingInstruction} THEN <<>>
        ELSE h[Head(s)].value) \o ConcatValues(h, Tail(s))

\* toString(node) for a node with simple content
toString(h, x) ==
  IF h[x].kind \in {Text, Attribute} THEN h[x].value
  ELSE ConcatValues(h, h[x].children)

RECURSIVE equals(_, _, _), deepEquals(_, _, _)
\* ASXML._deepEquals
deepEquals(h, x, y) ==
  IF h[x].kind # h[y].kind THEN FALSE
  ELSE IF ~QNameEquals(h[x].name, h[y].name) THEN FALSE
  ELSE IF h[x].kind # Element THEN h[x].value = h[y].value
  ELSE IF Len(h[x].attributes) # Len(h[y].attributes) THEN FALSE
  ELSE IF Len(h[x].children) # Len(h[y].children) THEN FALSE
  ELSE /\ \A i \in 1..Len(h[x].attributes) :
            \E j \in 1..Len(h[y].attributes) :
              /\ QNameEquals(h[h[y].attributes[j]].name, h[h[x].attributes[i]].name)
              /\ h[h[y].attributes[j]].value = h[h[x].attributes[i]].value
       /\ \A i \in 1..Len(h[x].children) :
            equals(h, h[x].children[i], h[y].children[i])

\* ASXML.equals on another XML node
equals(h, x, y) ==
  IF \/ h[x].kind \in {Text, Attribute} /\ hasSimpleContent(h, y)
     \/ h[y].kind \in {Text, Attribute} /\ hasSimpleContent(h, x)
  THEN toString(h, x) = toString(h, y)
  ELSE deepEquals(h, x, y)

\* the nodes of the subtree of x: x, its attributes and children, and theirs
RECURSIVE Subtree(_, _, _)
Subtree(h, x, fuel) ==
  {x} \cup (IF fuel = 0 THEN {}
            ELSE UNION {Subtree(h, c, fuel - 1) :
                          c \in Range(h[x].children) \cup Range(h[x].attributes)})

(***************************************************************************)
(* The tree machine.                                                       *)
(***************************************************************************)
Elem(n, cs, par) ==
  [kind |-> Element, name |-> ASQName(NoNamespace, n, FALSE), qn |-> 0, value |-> <<>>,
   parent |-> par, children |-> cs, attributes |-> <<>>, ns |-> <<>>]

Leaf(k, val, par) ==
  [kind |-> k, name |-> ASQName(NoNamespace, <<>>, FALSE), qn |-> 0, value |-> val,
   parent |-> par, children |-> <<>>, attributes |-> <<>>, ns |-> <<>>]

NoLast == [op |-> "none", self |-> None, p |-> 0, v |-> None]

\* the static settings of ASXML as the class initializes them
DefaultSettings ==
  [ignoreComments |-> TRUE, ignoreProcessingInstructions |-> TRUE,
   ignoreWhitespace |-> TRUE, prettyPrinting |-> TRUE, prettyIndent |-> 2]

\* no deep copy is under watch
NoCopy == [x |-> None, copy |-> None, sub |-> {}, snap |-> <<>>]

Idle == /\ lists = <<>>
        /\ sin = <<>>
        /\ sout = <<>>
        /\ doc = None
        /\ copied = NoCopy
        /\ settings = DefaultSettings
        /\ NoLoaders

Init ==
  /\ \E v2 \in {<<>>, <<"x">>}, k3 \in {Element, Text, Comment} :
       nodes = [n \in NodeIds |->
                  CASE n = 1 -> [Elem(<<"a">>, <<2, 3>>, None) EXCEPT !.attributes = <<5>>]
                    [] n = 2 -> Leaf(Text, v2, 1)
                    [] n = 3 -> IF k3 = Element THEN Elem(<<"b">>, <<>>, 1)
                                ELSE Leaf(k3, <<"y">>, 1)
                    [] n = 4 -> Elem(<<"c">>, <<>>, None)
                    [] n = 5 -> [init(Attribute, <<>>, <<"x">>, Undef) EXCEPT
                                   !.parent = 1, !.value = <<"1">>]
                    [] OTHER -> FreeNode]
  /\ err = "none"
  /\ last = NoLast
  /\ steps = 0
  /\ Idle

Elements == {n \in NodeIds : nodes[n].kind = Element}

Live == {n \in NodeIds : nodes[n].kind # Unknown}

Apply(r, op, self, p, v) ==
  /\ nodes' = r.h
  /\ err' = r.err
  /\ last' = [op |-> op, self |-> self, p |-> p, v |-> v]
  /\ steps' = steps + 1
  /\ UNCHANGED <<lists, sin, sout, doc, copied, settings>>
  /\ UNCHANGED loaderVars

Insert ==
  /\ steps < MaxOps
  /\ \E self \in Elements, v \in Live :
       \E p \in 0..length(nodes, self) :
         /\ AncestorWalk(nodes, self, v, MaxNodes) # "diverges"
         /\ Apply(insert(nodes, self, p, v), "insert", self, p, v)

DeleteByIndex ==
  /\ steps < MaxOps
  /\ \E self \in Elements :
       \E p \in 0..length(nodes, self) :
         Apply(deleteByIndex(nodes, self, p), "deleteByIndex", self, p, None)

Replace ==
  /\ steps < MaxOps
  /\ \E self \in Elements, v \in Live :
       \E p \in 0..length(nodes, self) :
         /\ AncestorWalk(nodes, self, v, MaxNodes) # "diverges"
         /\ nodes[v].kind = Attribute => Free(nodes) # {}
         /\ Apply(replace(nodes, self, p, XmlV(v), nodes[v].value), "replace", self, p, v)

AppendChild ==
  /\ steps < MaxOps
  /\ \E self \in Elements, v \in Live, release \in BOOLEAN :
       /\ nodes[v].parent # None => nodes[nodes[v].parent].kind = Element
       /\ Apply(appendChild(nodes, self, v, release), "appendChild", self, 0, v)

Normalize ==
  /\ steps < MaxOps
  /\ \E self \in Elements :
       /\ Tame(nodes, self, MaxNodes)
       /\ Apply(normalize(nodes, self), "normalize", self, 0, None)

DeepCopy ==
  /\ steps < MaxOps
  /\ \E x \in Live :
       /\ Tame(nodes, x, MaxNodes)
       /\ CopySize(nodes, x) <= Cardinality(Free(nodes))
       /\ LET r == deepCopy(nodes, x)
          IN  Apply(Ok(r.h), "deepCopy", x, 0, r.id)

\* the names and primitive values assigned by SetProperty
PutNames ==
  {ASQName(NoNamespace, <<"b">>, FALSE), ASQName(NoNamespace, <<"d">>, FALSE),
   ASQName(NoNamespace, <<"*">>, FALSE)}

PutAttributeNames == {ASQName(NoNamespace, <<"x">>, TRUE), ASQName(NoNamespace, <<"y">>, TRUE)}

PutStrings == {<<>>, <<"z">>}

SetProperty ==
  /\ steps < MaxOps
  /\ \E self \in Elements, isAttribute \in BOOLEAN :
       \E n \in (IF isAttribute THEN PutAttributeNames ELSE PutNames),
          v \in {StrV(s) : s \in PutStrings} \cup
                {XmlV(x) : x \in IF isAttribute
                                 THEN {y \in Live : nodes[y].kind \in {Text, Attribute}}
                                 ELSE Live} :
         /\ v.t = "xml" => Tame(nodes, v.id, MaxNodes)
         /\ PutNeeds(nodes, n, isAttribute, v) <= Cardinality(Free(nodes))
         /\ AncestorWalk(nodes, self, None, MaxNodes) # "diverges"
         /\ Apply(setProperty(nodes, self, n, isAttribute, v), "setProperty", self,
                  IF isAttribute THEN 1 ELSE 0, v.id)

Next ==
  \/ SetProperty
  \/ Insert
  \/ Replace
  \/ AppendChild
  \/ DeleteByIndex
  \/ Normalize
  \/ DeepCopy

Spec == Init /\ [][Next]_vars

(***************************************************************************)
(* The copy machine: a tree x is copied with deepCopy, and from then on    *)
(* the copy is mutated, with arguments taken from the copy or made after   *)
(* it.  copied keeps x, the root of the copy, the nodes of the subtree of  *)
(* x and the arena as it was before the copy.                              *)
(***************************************************************************)
InitCopy ==
  /\ \E k2 \in {ProcessingInstruction, Text, Element}, hasAttr \in BOOLEAN,
        decl \in {<<>>, <<ASNamespace(<<"p">>, <<"u">>)>>} :
       nodes = [n \in NodeIds |->
                  CASE n = 1 -> [init(Element, <<"u">>, <<"a">>, Undef) EXCEPT
                                   !.children = <<2>>,
                                   !.attributes = IF hasAttr THEN <<3>> ELSE <<>>,
                                   !.ns = decl]
                    [] n = 2 -> IF k2 = Element THEN Elem(<<"b">>, <<>>, 1)
                                ELSE IF k2 = Text THEN Leaf(Text, <<>>, 1)
                                ELSE [init(ProcessingInstruction, <<>>, <<"t">>, Undef)
                                        EXCEPT !.parent = 1, !.value = <<"v">>]
                    [] n = 3 -> IF hasAttr
                                THEN [init(Attribute, <<>>, <<"x">>, Undef) EXCEPT
                                        !.parent = 1, !.value = <<"1">>]
                                ELSE FreeNode
                    [] OTHER -> FreeNode]
  /\ err = "none"
  /\ last = NoLast
  /\ steps = 0
  /\ lists = <<>>
  /\ sin = <<>>
  /\ sout = <<>>
  /\ doc = None
  /\ copied = NoCopy
  /\ settings = DefaultSettings
  /\ NoLoaders

CopyTree ==
  /\ copied = NoCopy
  /\ \E x \in Live :
       /\ CopySize(nodes, x) <= Cardinality(Free(nodes))
       /\ LET r == deepCopy(nodes, x)
          IN  /\ nodes' = r.h
              /\ copied' = [x |-> x, copy |-> r.id,
                            sub |-> Subtree(nodes, x, MaxNodes), snap |-> nodes]
              /\ last' = [op |-> "deepCopy", self |-> x, p |-> 0, v |-> r.id]
  /\ err' = "none"
  /\ UNCHANGED <<steps, lists, sin, sout, doc, settings>>
  /\ UNCHANGED loaderVars

\* the nodes of the copy and the nodes made after the copy
Mine == IF copied = NoCopy THEN {}
        ELSE {n \in Live : copied.snap[n].kind = Unknown}

MineElements == {n \in Mine : nodes[n].kind = Element}

CopyInsert ==
  /\ steps < MaxOps
  /\ \E self \in MineElements, v \in Mine :
       \E p \in 0..length(nodes, self) :
         /\ AncestorWalk(nodes, self, v, MaxNodes) # "diverges"
         /\ Apply(insert(nodes, self, p, v), "insert", self, p, v)

CopyReplace ==
  /\ steps < MaxOps
  /\ \E self \in MineElements, v \in Mine :
       \E p \in 0..length(nodes, self) :
         /\ AncestorWalk(nodes, self, v, MaxNodes) # "diverges"
         /\ nodes[v].kind = Attribute => Free(nodes) # {}
         /\ Apply(replace(nodes, self, p, XmlV(v), nodes[v].value), "replace", self, p, v)

CopyDeleteByIndex ==
  /\ steps < MaxOps
  /\ \E self \in MineElements :
       \E p \in 0..length(nodes, self) :
         Apply(deleteByIndex(nodes, self, p), "deleteByIndex", self, p, None)

CopyNormalize ==
  /\ steps < MaxOps
  /\ \E self \in MineElements :
       /\ Tame(nodes, self, MaxNodes)
       /\ Apply(normalize(nodes, self), "normalize", self, 0, None)

CopySet ==
  /\ steps < MaxOps
  /\ \E self \in MineElements, isAttribute \in BOOLEAN :
       \E n \in (IF isAttribute THEN PutAttributeNames ELSE PutNames),
          v \in {StrV(s) : s \in PutStrings} \cup
                {XmlV(x) : x \in IF isAttribute
                                 THEN {y \in Mine : nodes[y].kind \in {Text, Attribute}}
                                 ELSE Mine} :
         /\ v.t = "xml" => Tame(nodes, v.id, MaxNodes)
         /\ PutNeeds(nodes, n, isAttribute, v) <= Cardinality(Free(nodes))
         /\ AncestorWalk(nodes, self, None, MaxNodes) # "diverges"
         /\ Apply(setProperty(nodes, self, n, isAttribute, v), "setProperty", self,
                  IF isAttribute THEN 1 ELSE 0, v.id)

\* the arguments of CopySetName: a string, the name() of a node of the copy,
\* or a QName made for the call
SetNameArgs ==
  {StrN(<<"e">>), NewN(ASQName(ASNamespace(Undef, <<"w">>), <<"f">>, FALSE))}
    \cup {NodeN(m) : m \in Mine}

CopySetName ==
  /\ steps < MaxOps
  /\ \E self \in Mine, a \in SetNameArgs :
       Apply(setName(nodes, self, a), "setName", self, 0, a.id)

CopyAddNamespace ==
  /\ steps < MaxOps
  /\ \E self \in Mine, ns \in {ASNamespace(<<"p">>, <<"w">>), ASNamespace1(<<"w">>)} :
       Apply(addNamespace(nodes, self, ns), "addNamespace", self, 0, None)

NextCopy ==
  \/ CopyTree
  \/ CopySet
  \/ CopyInsert
  \/ CopyReplace
  \/ CopyDeleteByIndex
  \/ CopyNormalize
  \/ CopySetName
  \/ CopyAddNamespace

SpecCopy == InitCopy /\ [][NextCopy]_vars

(***************************************************************************)
(* The claims about the tree machine.                                      *)
(***************************************************************************)
AnyQName == ASQName(NoNamespace, <<"*">>, FALSE)

\* the nodes on the parent chain of x, x included
RECURSIVE AncestorsOrSelf(_, _, _)
AncestorsOrSelf(h, x, fuel) ==
  IF x = None \/ fuel = 0 THEN {}
  ELSE {x} \cup AncestorsOrSelf(h, h[x].parent, fuel - 1)

\* C1: in every reachable state a node c is a member of the child list or
\* of the attribute list of p exactly when c.parent = p (so no node is in
\* the child lists of two parents).
C1_MemberIffParent ==
  \A c \in Live, p \in Live :
    (c \in Range(nodes[p].children) \cup Range(nodes[p].attributes))
      <=> nodes[c].parent = p

\* C3: normalize is idempotent: after a normalize of x that returned, a
\* second normalize of x returns and changes nothing.
C3_NormalizeIdempotent ==
  (last.op = "normalize" /\ err = "none")
     => normalize(nodes, last.self) = Ok(nodes)

\* C5 as stated: get with the any-name wildcard and isAttribute = false
\* returns exactly the children of kind Element, in document order.
C5_GetAnyIsElementChildren ==
  \A x \in Elements :
    getProperty(nodes, x, AnyQName, FALSE)
      = SelectSeq(nodes[x].children, LAMBDA c : nodes[c].kind = Element)

\* C5 amended: get with the wildcard for any name in any namespace (x.*)
\* returns exactly the children of x, of every kind, in document order; with
\* the wildcard for any name in one namespace it returns exactly the Element
\* children whose name has that namespace, in document order.
C5_GetAnyIsAllChildren ==
  \A x \in Elements :
    /\ getProperty(nodes, x, AnyQName, FALSE) = nodes[x].children
    /\ \A u \in {<<>>, <<"u">>} :
         getProperty(nodes, x, ASQName(ASNamespace(Undef, u), <<"*">>, FALSE), FALSE)
           = SelectSeq(nodes[x].children,
                       LAMBDA c : nodes[c].kind = Element /\ nodes[c].name.uri = u)

\* a state where an element has a Text child followed by an Element child
C5_Witness ==
  \E x \in Elements :
    /\ Len(nodes[x].children) >= 2
    /\ nodes[nodes[x].children[1]].kind = Text
    /\ nodes[nodes[x].children[2]].kind = Element
    /\ getProperty(nodes, x, AnyQName, FALSE) = nodes[x].children

\* C10: insert(i, v) and replace(i, v) on an Element x fail when v is x or
\* an ancestor of x (a node on the parent chain of x), and the failed call
\* leaves every child sequence and parent reference as it was.
C10_CycleGuard ==
  [][(last'.op \in {"insert", "replace"} /\
      last'.v \in AncestorsOrSelf(nodes, last'.self, MaxNodes))
       => (err' = "Error" /\ nodes' = nodes)]_vars

\* an insert of the parent of x into x has failed
C10_Witness ==
  /\ last.op = "insert"
  /\ err = "Error"
  /\ last.v # last.self
  /\ last.v = nodes[last.self].parent

\* C4: x.deepCopy() is deepEquals to x, its root has no parent, the parents
\* of its inner nodes are nodes of the copy, and it shares nothing mutable
\* with x: whatever mutations are applied to the copy afterwards (set,
\* insert, replace, deleteByIndex, normalize, setName, addNamespace), x and
\* every node of the subtree of x stay as they were.
C4_CopyIndependent ==
  copied # NoCopy =>
    /\ \A n \in copied.sub : nodes[n] = copied.snap[n]
    /\ last.op = "deepCopy" =>
         LET inner == Subtree(nodes, copied.copy, MaxNodes)
         IN  /\ deepEquals(nodes, copied.x, copied.copy)
             /\ nodes[copied.copy].parent = None
             /\ \A n \in inner \ {copied.copy} : nodes[n].parent \in inner
             /\ inner \cap copied.sub = {}

(***************************************************************************)
(* 10.2.1 the escaping functions of the serializer.                        *)
(***************************************************************************)
\* the length of the strings handed to the escaping functions
MaxStr == 3

\* the characters of those strings: the ones the functions test for, and
\* one they do not
Chars == {"&", "<", ">", "\"", "\n", "\r", "\t", "a"}

RECURSIVE StringsUpTo(_)
StringsUpTo(n) ==
  IF n = 0 THEN {<<>>}
  ELSE LET shorter == StringsUpTo(n - 1)
       IN  shorter \cup {Append(t, c) : t \in {u \in shorter : Len(u) = n - 1}, c \in Chars}

\* the first loop: the index of the first character in stop, or s.length
RECURSIVE SkipTo(_, _, _)
SkipTo(s, i, stop) ==
  IF i < Len(s) /\ At(s, i) \notin stop THEN SkipTo(s, i + 1, stop) ELSE i

\* the switch of escapeElementValue
ElementEntity(ch) ==
  CASE ch = "&" -> <<"&", "a", "m", "p", ";">>
    [] ch = "<" -> <<"&", "l", "t", ";">>
    [] ch = ">" -> <<"&", "g", "t", ";">>
    [] OTHER -> <<ch>>

\* the switch of escapeAttributeValue
AttributeEntity(ch) ==
  CASE ch = "&" -> <<"&", "a", "m", "p", ";">>
    [] ch = "<" -> <<"&", "l", "t", ";">>
    [] ch = "\"" -> <<"&", "q", "u", "o", "t", ";">>
    [] ch = "\n" -> <<"&", "#", "x", "A", ";">>
    [] ch = "\r" -> <<"&", "#", "x", "D", ";">>
    [] ch = "\t" -> <<"&", "#", "x", "9", ";">>
    [] OTHER -> <<ch>>

\* the second loop of escapeElementValue, from index i with the buffer buf
RECURSIVE ElementLoop(_, _, _)
ElementLoop(s, i, buf) ==
  IF i < Len(s) THEN ElementLoop(s, i + 1, buf \o ElementEntity(At(s, i))) ELSE buf

\* the second loop of escapeAttributeValue
RECURSIVE AttributeLoop(_, _, _)
AttributeLoop(s, i, buf) ==
  IF i < Len(s) THEN AttributeLoop(s, i + 1, buf \o AttributeEntity(At(s, i))) ELSE buf

\* escapeElementValue that starts its buffer empty
escapeElementValueNoPrefix(s) ==
  LET i == SkipTo(s, 0, {"&", "<", ">"})
  IN  IF i >= Len(s) THEN s ELSE ElementLoop(s, i, <<>>)

escapeElementValue(s) ==
  LET i == SkipTo(s, 0, {"&", "<", ">"})
  IN  IF i >= Len(s) THEN s ELSE ElementLoop(s, i, SubSeq(s, 1, i))

escapeAttributeValue(s) ==
  LET i == SkipTo(s, 0, {"&", "<", "\"", "\n", "\r", "\t"})
  IN  IF i >= Len(s) THEN s ELSE AttributeLoop(s, i, SubSeq(s, 1, i))

NoEscaped == [element |-> <<>>, attribute |-> <<>>]

InitEscape ==
  /\ sin \in StringsUpTo(MaxStr)
  /\ sout = NoEscaped
  /\ last = NoLast
  /\ err = "none"
  /\ steps = 0
  /\ nodes = [n \in NodeIds |-> FreeNode]
  /\ lists = <<>>
  /\ doc = None
  /\ copied = NoCopy
  /\ settings = DefaultSettings
  /\ NoLoaders

\* both functions are applied to the string sin
Escape ==
  /\ last.op = "none"
  /\ sout' = [element |-> escapeElementValue(sin), attribute |-> escapeAttributeValue(sin)]
  /\ last' = [NoLast EXCEPT !.op = "escape"]
  /\ UNCHANGED <<sin, err, steps, nodes, lists, doc, copied, settings>>
  /\ UNCHANGED loaderVars

NextEscape == Escape

SpecEscape == InitEscape /\ [][NextEscape]_vars

\* s with every character ch replaced by the string f[ch]
RECURSIVE Substitute(_, _)
Substitute(s, f) == IF s = <<>> THEN <<>> ELSE f[Head(s)] \o Substitute(Tail(s), f)

\* C7: both escaping functions are character-wise substitutions.
\* escapeElementValue(s) is s with every & < > replaced by &amp; &lt; &gt;
\* and every other character unchanged and in order; escapeAttributeValue(s)
\* is s with every & < " newline, carriage return, tab replaced by &amp; &lt;
\* &quot; &#xA; &#xD; &#x9; and every other character (> too) unchanged; for
\* every string, the empty one and the ones that need no escaping included.
C7_EscapeIsSubstitution ==
  last.op = "escape" =>
    /\ sout.element =
         Substitute(sin, [ch \in Chars |->
                            IF ch = "&" THEN <<"&", "a", "m", "p", ";">>
                            ELSE IF ch = "<" THEN <<"&", "l", "t", ";">>
                            ELSE IF ch = ">" THEN <<"&", "g", "t", ";">>
                            ELSE <<ch>>])
    /\ sout.attribute =
         Substitute(sin, [ch \in Chars |->
                            IF ch = "&" THEN <<"&", "a", "m", "p", ";">>
                            ELSE IF ch = "<" THEN <<"&", "l", "t", ";">>
                            ELSE IF ch = "\"" THEN <<"&", "q", "u", "o", "t", ";">>
                            ELSE IF ch = "\n" THEN <<"&", "#", "x", "A", ";">>
                            ELSE IF ch = "\r" THEN <<"&", "#", "x", "D", ";">>
                            ELSE IF ch = "\t" THEN <<"&", "#", "x", "9", ";">>
                            ELSE <<ch>>])

\* a string with an ordinary character before the characters to escape has
\* been escaped
C7_Witness ==
  /\ last.op = "escape"
  /\ sin = <<"a", ">", "\"">>
  /\ sout.element = <<"a", "&", "g", "t", ";", "\"">>
  /\ sout.attribute = <<"a", ">", "&", "q", "u", "o", "t", ";">>

(***************************************************************************)
(* 10.2 ToXMLString.  toXMLString returns the string s and, for the        *)
(* claims about prefix synthesis, gen: one record for every call of        *)
(* generateUniquePrefix, with the prefix it returned and the namespaces    *)
(* (currentNamespaces) it was given.                                       *)
(***************************************************************************)
isWhitespace(s, index) ==
  index < Len(s) /\ At(s, index) \in {" ", "\n", "\r", "\t"}

RECURSIVE SkipWs(_, _)
\* the index of the first character from i on that is not whitespace
SkipWs(s, i) == IF i < Len(s) /\ isWhitespace(s, i) THEN SkipWs(s, i + 1) ELSE i

RECURSIVE SkipWsBack(_, _)
SkipWsBack(s, j) == IF isWhitespace(s, j) THEN SkipWsBack(s, j - 1) ELSE j

trimWhitespaces(s) ==
  LET i == SkipWs(s, 0)
  IN  IF i >= Len(s) THEN <<>>
      ELSE SubSeq(s, i + 1, SkipWsBack(s, Len(s) - 1) + 1)

RECURSIVE getIndentString(_)
getIndentString(indent) ==
  IF indent > 0 THEN <<" ">> \o getIndentString(indent - 1) ELSE <<>>

\* the decimal digits of a number, as '_ns' + i makes them
RECURSIVE ToDecimal(_)
ToDecimal(n) ==
  LET digit == <<"0", "1", "2", "3", "4", "5", "6", "7", "8", "9">>[(n % 10) + 1]
  IN  IF n < 10 THEN <<digit>> ELSE Append(ToDecimal(n \div 10), digit)

\* the loop of generateUniquePrefix from the counter i on
RECURSIVE UniquePrefixFrom(_, _)
UniquePrefixFrom(namespaces, i) ==
  LET newPrefix == <<"_", "n", "s">> \o ToDecimal(i)
  IN  IF \E k \in 1..Len(namespaces) : namespaces[k].prefix = newPrefix
      THEN UniquePrefixFrom(namespaces, i + 1)
      ELSE newPrefix

\* a prefix generator that does not look at the namespaces
generateFirstPrefix(namespaces) == <<"_", "n", "s", "1">>

generateUniquePrefix(namespaces) == UniquePrefixFrom(namespaces, 1)

\* ASQName.getNamespace(inScopeNamespaces): the last namespace in scope with
\* the uri of the name, or a new namespace with the prefix and uri of the name
getNamespace(q, inScopeNamespaces) ==
  LET hits == {k \in 1..Len(inScopeNamespaces) : inScopeNamespaces[k].uri = q.uri}
  IN  IF hits # {}
      THEN inScopeNamespaces[CHOOSE k \in hits : \A m \in hits : m <= k]
      ELSE ASNamespace(q.prefix, q.uri)

\* a string that is neither undefined nor empty
Truthy(str) == str # Undef /\ str # <<>>

\* step 10: the in-scope namespaces of the node that no ancestor declares
RECURSIVE OwnDeclarations(_, _)
OwnDeclarations(inScope, ancestorNamespaces) ==
  IF inScope = <<>> THEN <<>>
  ELSE (IF \A k \in 1..Len(ancestorNamespaces) :
              \/ ancestorNamespaces[k].uri # Head(inScope).uri
              \/ ancestorNamespaces[k].prefix # Head(inScope).prefix
        THEN <<ASNamespace(Head(inScope).prefix, Head(inScope).uri)>>
        ELSE <<>>) \o OwnDeclarations(Tail(inScope), ancestorNamespaces)

\* step 11 for one name q: a namespace without a prefix gets a generated
\* one, and the new namespace joins the declarations and the current scope
CollectName(c, q) ==
  LET namespace == getNamespace(q, c.current)
  IN  IF namespace.prefix = Undef
      THEN LET newPrefix == generateUniquePrefix(c.current)
               ns2 == ASNamespace(newPrefix, namespace.uri)
           IN  [current |-> Append(c.current, ns2),
                decls |-> Append(c.decls, ns2),
                gen |-> Append(c.gen, [prefix |-> newPrefix, scope |-> c.current])]
      ELSE c

RECURSIVE CollectAttributes(_, _, _)
\* the first loop over the attributes
CollectAttributes(h, attrs, c) ==
  IF attrs = <<>> THEN c
  ELSE CollectAttributes(h, Tail(attrs), CollectName(c, h[Head(attrs)].name))

RECURSIVE DeclarationsString(_)
\* the loop over namespaceDeclarations
DeclarationsString(decls) ==
  IF decls = <<>> THEN <<>>
  ELSE <<" ">>
       \o (IF Truthy(Head(decls).prefix)
           THEN <<"x", "m", "l", "n", "s", ":">> \o Head(decls).prefix
           ELSE <<"x", "m", "l", "n", "s">>)
       \o <<"=", "\"">> \o escapeAttributeValue(Head(decls).uri) \o <<"\"">>
       \o DeclarationsString(Tail(decls))

RECURSIVE AttributesString(_, _, _)
\* the second loop over the attributes: the prefix of an attribute is looked
\* up in ancestorNamespaces
AttributesString(h, attrs, ancestorNamespaces) ==
  IF attrs = <<>> THEN <<>>
  ELSE LET name == h[Head(attrs)].name
           namespace == getNamespace(name, ancestorNamespaces)
       IN  <<" ">>
           \o (IF Truthy(namespace.prefix) THEN namespace.prefix \o <<":">> ELSE <<>>)
           \o name.localName
           \o <<"=", "\"">> \o escapeAttributeValue(h[Head(attrs)].value) \o <<"\"">>
           \o AttributesString(h, Tail(attrs), ancestorNamespaces)

RECURSIVE toXMLString(_, _, _, _, _), ChildrenString(_, _, _, _, _, _)
\* the forEach over the children
ChildrenString(h, cs, currentNamespaces, nextIndentLevel, newline, st) ==
  IF cs = <<>> THEN [s |-> <<>>, gen |-> <<>>]
  ELSE LET child == toXMLString(h, Head(cs), currentNamespaces, nextIndentLevel, st)
           rest == ChildrenString(h, Tail(cs), currentNamespaces, nextIndentLevel,
                                  newline, st)
       IN  [s |-> (IF newline THEN <<"\n">> ELSE <<>>) \o child.s \o rest.s,
            gen |-> child.gen \o rest.gen]

toXMLString(h, node, ancestorNamespaces, indentLevel, st) ==
  LET prettyPrinting == st.prettyPrinting
      s == IF prettyPrinting THEN getIndentString(indentLevel) ELSE <<>>
      kind == h[node].kind
  IN  IF kind = Text
      THEN [s |-> IF prettyPrinting
                  THEN s \o escapeElementValue(trimWhitespaces(h[node].value))
                  ELSE escapeElementValue(h[node].value),
            gen |-> <<>>]
      ELSE IF kind = Attribute
      THEN [s |-> s \o escapeAttributeValue(h[node].value), gen |-> <<>>]
      ELSE IF kind = Comment
      THEN [s |-> s \o <<"<", "!", "-", "-">> \o h[node].value \o <<"-", "-", ">">>,
            gen |-> <<>>]
      ELSE IF kind = ProcessingInstruction
      THEN [s |-> s \o <<"<", "?">> \o h[node].name.localName \o <<" ">>
                    \o h[node].value \o <<"?", ">">>,
            gen |-> <<>>]
      ELSE LET own == OwnDeclarations(h[node].ns, ancestorNamespaces)
               c0 == [current |-> ancestorNamespaces \o own, decls |-> own, gen |-> <<>>]
               namespace == getNamespace(h[node].name, c0.current)
               c1 == CollectName(c0, h[node].name)
               elementName ==
                 (IF Truthy(namespace.prefix) THEN namespace.prefix \o <<":">> ELSE <<>>)
                   \o h[node].name.localName
               c2 == CollectAttributes(h, h[node].attributes, c1)
               open == s \o <<"<">> \o elementName \o DeclarationsString(c2.decls)
                         \o AttributesString(h, h[node].attributes, ancestorNamespaces)
               indentChildren ==
                 \/ Len(h[node].children) > 1
                 \/ Len(h[node].children) = 1 /\ h[h[node].children[1]].kind # Text
               newline == prettyPrinting /\ indentChildren
               nextIndentLevel == IF newline THEN indentLevel + st.prettyIndent ELSE 0
               kids == ChildrenString(h, h[node].children, c2.current, nextIndentLevel,
                                      newline, st)
           IN  IF length(h, node) = 0
               THEN [s |-> open \o <<"/", ">">>, gen |-> c2.gen]
               ELSE [s |-> open \o <<">">> \o kids.s
                             \o (IF newline THEN <<"\n">> \o getIndentString(indentLevel)
                                 ELSE <<>>)
                             \o <<"<", "/">> \o elementName \o <<">">>,
                     gen |-> c2.gen \o kids.gen]

(***************************************************************************)
(* XMLParser: the string functions of JavaScript the parser uses.          *)
(***************************************************************************)
\* s[i] beyond the end of the string
Eof == "undefined"

CharAt(s, i) == IF 0 <= i /\ i < Len(s) THEN At(s, i) ELSE Eof

Clamp(s, i) == IF i < 0 THEN 0 ELSE IF i > Len(s) THEN Len(s) ELSE i

\* String.prototype.substring(a, b)
Substring(s, a, b) ==
  LET Between(lo, hi) == IF lo <= hi THEN SubSeq(s, lo + 1, hi) ELSE SubSeq(s, hi + 1, lo)
  IN  Between(Clamp(s, a), Clamp(s, b))

\* String.prototype.indexOf(pat, from) for a pattern that is not empty
StringIndexOf(s, pat, from) ==
  LET First(hits) == IF hits = {} THEN -1 ELSE CHOOSE k \in hits : \A m \in hits : k <= m
  IN  First({k \in Clamp(s, from)..(Len(s) - Len(pat)) :
               SubSeq(s, k + 1, k + Len(pat)) = pat})

\* the value of a digit in the radix, or -1
DigitValue(ch, radix) ==
  LET digits == <<"0", "1", "2", "3", "4", "5", "6", "7", "8", "9",
                  "a", "b", "c", "d", "e", "f">>
      upper == <<"0", "1", "2", "3", "4", "5", "6", "7", "8", "9",
                 "A", "B", "C", "D", "E", "F">>
      hits == {k \in 1..radix : digits[k] = ch \/ upper[k] = ch}
  IN  IF hits = {} THEN -1 ELSE (CHOOSE k \in hits : TRUE) - 1

\* parseInt(s, radix) for a string without sign, blanks or 0x: the value of
\* the longest prefix of digits, -1 (NaN) when there is none
RECURSIVE ParseIntFrom(_, _, _, _)
ParseIntFrom(s, i, radix, acc) ==
  IF i < Len(s) /\ DigitValue(At(s, i), radix) >= 0
  THEN ParseIntFrom(s, i + 1, radix, acc * radix + DigitValue(At(s, i), radix))
  ELSE IF i = 0 THEN -1 ELSE acc

parseInt(s, radix) == ParseIntFrom(s, 0, radix, 0)

\* String.fromCharCode for the characters of the model; any other code is a
\* character of its own, and NaN is code 0
fromCharCode(code) ==
  CASE code = 9 -> "\t"
    [] code = 10 -> "\n"
    [] code = 13 -> "\r"
    [] code = 32 -> " "
    [] code = 34 -> "\""
    [] code = 38 -> "&"
    [] code = 60 -> "<"
    [] code = 62 -> ">"
    [] code < 0 -> "u0"
    [] OTHER -> "u" \o ToString(code % 65536)

\* the replacement of one match of /&([^;]+);/ with the entity in the group
EntityValue(entity) ==
  IF Substring(entity, 0, 2) = <<"#", "x">>
  THEN <<fromCharCode(parseInt(Substring(entity, 2, Len(entity)), 16))>>
  ELSE IF Substring(entity, 0, 1) = <<"#">>
  THEN <<fromCharCode(parseInt(Substring(entity, 1, Len(entity)), 10))>>
  ELSE IF entity = <<"l", "t">> THEN <<"<">>
  ELSE IF entity = <<"g", "t">> THEN <<">">>
  ELSE IF entity = <<"a", "m", "p">> THEN <<"&">>
  ELSE IF entity = <<"q", "u", "o", "t">> THEN <<"\"">>
  ELSE <<"&">> \o entity \o <<";">>

\* s.replace(/&([^;]+);/g, ...) from index k on: a match starts at an & that
\* is followed by a character other than ; and ends at the next ;
RECURSIVE ResolveFrom(_, _)
ResolveFrom(s, k) ==
  LET Match(m) ==
        IF At(s, k) = "&" /\ k + 1 < Len(s) /\ At(s, k + 1) # ";" /\ m >= 0
        THEN EntityValue(Substring(s, k + 1, m)) \o ResolveFrom(s, m + 1)
        ELSE <<At(s, k)>> \o ResolveFrom(s, k + 1)
  IN  IF k >= Len(s) THEN <<>> ELSE Match(StringIndexOf(s, <<";">>, k + 2))

resolveEntities(s) == ResolveFrom(s, 0)

(***************************************************************************)
(* XMLParser: parseContent and parseProcessingInstruction.                 *)
(***************************************************************************)
\* the loop over a tag name: up to whitespace, > or /
RECURSIVE NameEnd(_, _)
NameEnd(s, pos) ==
  IF pos < Len(s) /\ ~isWhitespace(s, pos) /\ At(s, pos) \notin {">", "/"}
  THEN NameEnd(s, pos + 1) ELSE pos

\* the loop over an attribute name: up to whitespace or =
RECURSIVE AttrNameEnd(_, _)
AttrNameEnd(s, pos) ==
  IF pos < Len(s) /\ ~isWhitespace(s, pos) /\ At(s, pos) # "="
  THEN AttrNameEnd(s, pos + 1) ELSE pos

\* the loop of parseContent over the attributes, from pos on
RECURSIVE AttributesFrom(_, _, _)
AttributesFrom(s, pos, attributes) ==
  LET Failed(at, e) == [pos |-> at, attributes |-> attributes, err |-> e]
      Valued(attrName, p4, attrEndIndex) ==
        IF attrEndIndex < 0 THEN Failed(p4, "Unexpected EOF[6]")
        ELSE AttributesFrom(s, SkipWs(s, attrEndIndex + 1),
                            Append(attributes,
                                   [name |-> attrName,
                                    value |-> resolveEntities(
                                                Substring(s, p4 + 1, attrEndIndex))]))
      Quoted(attrName, p4) ==
        IF CharAt(s, p4) \notin {"\"", "'"} THEN Failed(p4, "Quote expected")
        ELSE Valued(attrName, p4, StringIndexOf(s, <<CharAt(s, p4)>>, p4 + 1))
      Equals(attrName, p3) ==
        IF CharAt(s, p3) # "=" THEN Failed(p3, "'=' expected")
        ELSE Quoted(attrName, SkipWs(s, p3 + 1))
      Named(p1, p2) == Equals(Substring(s, p1, p2), SkipWs(s, p2))
      Started(p1) == Named(p1, AttrNameEnd(s, p1))
  IN  IF pos < Len(s) /\ At(s, pos) \notin {">", "/", "?"}
      THEN Started(SkipWs(s, pos))
      ELSE Failed(pos, "none")

parseContent(s, start) ==
  LET Result(name, r) ==
        [name |-> name, attributes |-> r.attributes, parsed |-> r.pos - start,
         err |-> r.err]
      Named(pos) == Result(Substring(s, start, pos), AttributesFrom(s, SkipWs(s, pos), <<>>))
  IN  Named(NameEnd(s, start))

\* the loop over the value of a processing instruction: up to ?>
RECURSIVE PIValueEnd(_, _)
PIValueEnd(s, pos) ==
  IF pos < Len(s) /\ (At(s, pos) # "?" \/ CharAt(s, pos + 1) # ">")
  THEN PIValueEnd(s, pos + 1) ELSE pos

parseProcessingInstruction(s, start) ==
  LET Result(name, attrStart, end) ==
        [name |-> name, value |-> Substring(s, attrStart, end), parsed |-> end - start]
      Valued(name, attrStart) == Result(name, attrStart, PIValueEnd(s, attrStart))
      Named(pos) == Valued(Substring(s, start, pos), SkipWs(s, pos))
  IN  Named(NameEnd(s, start))

(***************************************************************************)
(* XMLParser: the stack of scopes.  A scope has its prefix bindings        *)
(* (lookup), its default namespace (xmlns, when hasXmlns), its xml:space   *)
(* and the namespaces in scope (inScopes).  The lookup object of the first *)
(* scope is an object literal, so "prefix in lookup" also holds for the    *)
(* properties it inherits from Object.prototype; toString stands for them. *)
(***************************************************************************)
XmlnsUri == <<"http://www.w3.org/2000/xmlns/">>

XmlUri == <<"http://www.w3.org/XML/1998/namespace">>

\* ToString of the function Object.prototype.toString
ToStringSource == <<"function toString() { [native code] }">>

RootScope ==
  [lookup |-> (<<"x", "m", "l", "n", "s">> :> XmlnsUri) @@ (<<"x", "m", "l">> :> XmlUri)
                @@ (<<"t", "o", "S", "t", "r", "i", "n", "g">> :> ToStringSource),
   inScopes |-> IF defaultNamespace = <<>> THEN <<>>
                ELSE <<[uri |-> defaultNamespace, prefix |-> <<>>]>>,
   hasXmlns |-> TRUE, xmlns |-> defaultNamespace,
   space |-> <<"d", "e", "f", "a", "u", "l", "t">>]

isWhitespacePreserved(scopes) ==
  \E j \in 1..Len(scopes) : scopes[j].space = <<"p", "r", "e", "s", "e", "r", "v", "e">>

lookupDefaultNs(scopes) ==
  LET Innermost(hits) ==
        IF hits = {} THEN <<>>
        ELSE scopes[CHOOSE j \in hits : \A m \in hits : m <= j].xmlns
  IN  Innermost({j \in 1..Len(scopes) : scopes[j].hasXmlns})

\* a lookup that asks the outermost scope first
lookupNsOutermost(scopes, prefix) ==
  LET Outermost(hits) ==
        IF hits = {} THEN Undef
        ELSE scopes[CHOOSE j \in hits : \A m \in hits : j <= m].lookup[prefix]
  IN  Outermost({j \in 1..Len(scopes) : prefix \in DOMAIN scopes[j].lookup})

\* the uri bound to the prefix by the innermost scope that binds it, or
\* undefined
lookupNs(scopes, prefix) ==
  LET Innermost(hits) ==
        IF hits = {} THEN Undef
        ELSE scopes[CHOOSE j \in hits : \A m \in hits : m <= j].lookup[prefix]
  IN  Innermost({j \in 1..Len(scopes) : prefix \in DOMAIN scopes[j].lookup})

getName(scopes, name, resolveDefaultNs) ==
  LET Prefixed(j, prefix, namespace) ==
        [localName |-> Substring(name, j + 1, Len(name)), prefix |-> prefix,
         namespace |-> namespace,
         err |-> IF namespace = Undef THEN "Unknown namespace" ELSE "none"]
      Bound(j, prefix) == Prefixed(j, prefix, lookupNs(scopes, prefix))
      Split(j) ==
        IF j >= 0 THEN Bound(j, Substring(name, 0, j))
        ELSE [localName |-> name, prefix |-> <<>>,
              namespace |-> IF resolveDefaultNs THEN lookupDefaultNs(scopes) ELSE <<>>,
              err |-> "none"]
  IN  Split(StringIndexOf(name, <<":">>, 0))

\* the scope of a start tag before its attributes are read
EmptyScope ==
  [lookup |-> <<>>, namespaces |-> <<>>, hasXmlns |-> FALSE, xmlns |-> <<>>,
   space |-> Undef, kept |-> <<>>, err |-> "none"]

\* the body of the loop over contentAttributes for one attribute: xmlns
\* attributes bind and are deleted, the others are kept
ScopeAttribute(scopes, scope, attribute) ==
  LET attributeName == attribute.name
      uri == attribute.value
      Bind(prefix) ==
        IF lookupNs(scopes, prefix) # uri
        THEN [scope EXCEPT
                !.lookup = (prefix :> trimWhitespaces(uri)) @@ scope.lookup,
                !.namespaces = Append(scope.namespaces, [uri |-> uri, prefix |-> prefix])]
        ELSE scope
      Xml(xmlAttrName) ==
        IF xmlAttrName \notin {<<"s", "p", "a", "c", "e">>, <<"l", "a", "n", "g">>,
                               <<"b", "a", "s", "e">>, <<"i", "d">>}
        THEN [scope EXCEPT !.err = "Invalid xml attribute"]
        ELSE [scope EXCEPT
                !.space = IF xmlAttrName = <<"s", "p", "a", "c", "e">>
                          THEN trimWhitespaces(uri) ELSE scope.space,
                !.kept = Append(scope.kept, attribute)]
  IN  IF Substring(attributeName, 0, 6) = <<"x", "m", "l", "n", "s", ":">>
      THEN Bind(Substring(attributeName, 6, Len(attributeName)))
      ELSE IF attributeName = <<"x", "m", "l", "n", "s">>
      THEN IF lookupDefaultNs(scopes) # uri
           THEN [scope EXCEPT
                   !.hasXmlns = TRUE, !.xmlns = trimWhitespaces(uri),
                   !.namespaces = Append(scope.namespaces,
                                         [uri |-> uri, prefix |-> <<>>])]
           ELSE scope
      ELSE IF Substring(attributeName, 0, 4) = <<"x", "m", "l", ":">>
      THEN Xml(Substring(attributeName, 4, Len(attributeName)))
      ELSE IF Substring(attributeName, 0, 3) = <<"x", "m", "l">>
      THEN [scope EXCEPT !.err = "Invalid xml attribute"]
      ELSE [scope EXCEPT !.kept = Append(scope.kept, attribute)]

RECURSIVE ScopeAttributes(_, _, _)
ScopeAttributes(scopes, scope, attributes) ==
  IF attributes = <<>> \/ scope.err # "none" THEN scope
  ELSE ScopeAttributes(scopes, ScopeAttribute(scopes, scope, Head(attributes)),
                       Tail(attributes))

\* the list of all namespaces in scope of a start tag: its own declarations
\* that hold, then the ones of the enclosing scope it does not rebind
InScopeNamespaces(scope, outer) ==
  SelectSeq(scope.namespaces,
            LAMBDA ns : ns.prefix = <<>> \/ scope.lookup[ns.prefix] = ns.uri)
    \o SelectSeq(outer.inScopes,
                 LAMBDA ns : \/ ns.prefix # <<>> /\ ns.prefix \notin DOMAIN scope.lookup
                             \/ ns.prefix = <<>> /\ ~scope.hasXmlns)

(***************************************************************************)
(* XMLParser.parseFromString: the sink that builds the tree.  A sink state *)
(* has the arena h, currentElement (cur, None once the stack was popped    *)
(* empty), elementsStack and the error thrown, if any.  "arena" is not an  *)
(* error of the program: the arena of the model is full.                   *)
(***************************************************************************)
\* new ASNamespace(prefix, uri) throws for a prefix without a uri
BadNamespace(prefix, uri) == uri = <<>> /\ Truthy(prefix)

\* node.insert(node.length(), child) on currentElement
SinkAppend(k, rec) ==
  LET Result(r) == [k EXCEPT !.h = r.h, !.err = r.err]
      Into(n) == Result(insert([k.h EXCEPT ![n] = rec], k.cur, length(k.h, k.cur), n))
  IN  IF Free(k.h) = {} THEN [k EXCEPT !.err = "arena"]
      ELSE IF k.cur = None THEN [k EXCEPT !.err = "TypeError"]
      ELSE Into(Fresh(k.h))

RECURSIVE SinkAttributes(_, _, _)
\* the loop of beginElement over attrs: the attributes of the element e
SinkAttributes(h, e, attrs) ==
  LET rawAttr == Head(attrs)
      Into(a) ==
        SinkAttributes(
          [h EXCEPT ![a] = [init(Attribute, rawAttr.name.namespace,
                                 rawAttr.name.localName, rawAttr.name.prefix)
                              EXCEPT !.value = rawAttr.value, !.parent = e],
                    ![e].attributes = Append(h[e].attributes, a)],
          e, Tail(attrs))
  IN  IF attrs = <<>> THEN h ELSE Into(Fresh(h))

beginElement(k, name, attrs, namespaces, isEmpty) ==
  LET parent == k.cur
      Result(e, r) ==
        [h |-> r.h, cur |-> IF isEmpty THEN parent ELSE e,
         stack |-> IF isEmpty THEN k.stack ELSE Append(k.stack, parent),
         err |-> r.err]
      Inserted(e, h3) == Result(e, insert(h3, parent, length(h3, parent), e))
      Declared(e, h2) ==
        Inserted(e, [h2 EXCEPT ![e].ns =
                       [i \in 1..Len(namespaces) |->
                          ASNamespace(namespaces[i].prefix, namespaces[i].uri)]])
      Created(e) ==
        Declared(e, SinkAttributes(
                      [k.h EXCEPT ![e] = init(Element, name.namespace, name.localName,
                                              name.prefix)],
                      e, attrs))
  IN  IF Cardinality(Free(k.h)) < 1 + Len(attrs) THEN [k EXCEPT !.err = "arena"]
      ELSE IF \/ BadNamespace(name.prefix, name.namespace)
              \/ \E i \in 1..Len(attrs) :
                   BadNamespace(attrs[i].name.prefix, attrs[i].name.namespace)
              \/ \E i \in 1..Len(namespaces) :
                   BadNamespace(namespaces[i].prefix, namespaces[i].uri)
              \/ k.cur = None
           THEN [k EXCEPT !.err = "TypeError"]
      ELSE Created(Fresh(k.h))

\* elementsStack.pop()
endElement(k) ==
  IF k.stack = <<>> THEN [k EXCEPT !.cur = None]
  ELSE [k EXCEPT !.cur = k.stack[Len(k.stack)],
                 !.stack = SubSeq(k.stack, 1, Len(k.stack) - 1)]

SinkText(k, text, isWhitespacePreserve, st) ==
  LET Trimmed(t) ==
        IF Len(t) = 0 \/ (isWhitespacePreserve /\ st.ignoreWhitespace) THEN k
        ELSE SinkAppend(k, Leaf(Text, t, None))
  IN  Trimmed(IF st.ignoreWhitespace THEN trimWhitespaces(text) ELSE text)

SinkCdata(k, text) == SinkAppend(k, Leaf(Text, text, None))

SinkComment(k, text, st) ==
  IF st.ignoreComments THEN k ELSE SinkAppend(k, Leaf(Comment, text, None))

SinkPi(k, name, value, st) ==
  IF st.ignoreProcessingInstructions THEN k
  ELSE SinkAppend(k, [init(ProcessingInstruction, <<>>, name, Undef) EXCEPT
                        !.value = value])

(***************************************************************************)
(* XMLParser.parseXml: one operator for each branch of the main loop.  A   *)
(* parser state p has the scan position i, the scopes and the sink state   *)
(* k; an error thrown by the parser or by the sink is in p.k.err.          *)
(***************************************************************************)
Fail(p, e) == [p EXCEPT !.k.err = e]

Pop(stack) == IF stack = <<>> THEN stack ELSE SubSeq(stack, 1, Len(stack) - 1)

\* case "/": an end tag; j is the index after "</"
EndTag(s, p, j) ==
  LET Named(q, name) ==
        IF name.err # "none" THEN Fail(p, name.err)
        ELSE [i |-> q + 1, scopes |-> Pop(p.scopes), k |-> endElement(p.k)]
      Closed(q) ==
        IF q < 0 THEN Fail(p, "Unexpected EOF[1]")
        ELSE Named(q, getName(p.scopes, Substring(s, j, q), TRUE))
  IN  Closed(StringIndexOf(s, <<">">>, j))

\* case "?": a processing instruction; j is the index after "<?"
PITag(s, p, j, st) ==
  LET Parsed(pi) ==
        IF Substring(s, j + pi.parsed, j + pi.parsed + 2) # <<"?", ">">>
        THEN Fail(p, "Unexpected EOF[2]")
        ELSE [p EXCEPT !.i = j + pi.parsed + 2, !.k = SinkPi(p.k, pi.name, pi.value, st)]
  IN  Parsed(parseProcessingInstruction(s, j))

\* case "!": a comment, a CDATA section or a DOCTYPE; j is the index of "!"
BangTag(s, p, j, st) ==
  LET CommentTo(q) ==
        IF q < 0 THEN Fail(p, "Unexpected EOF[3]")
        ELSE [p EXCEPT !.i = q + 3, !.k = SinkComment(p.k, Substring(s, j + 3, q), st)]
      CdataTo(q) ==
        IF q < 0 THEN Fail(p, "Unexpected EOF[4]")
        ELSE [p EXCEPT !.i = q + 3, !.k = SinkCdata(p.k, Substring(s, j + 8, q))]
      ComplexTo(q) ==
        IF q < 0 THEN Fail(p, "Unexpected EOF[7]") ELSE [p EXCEPT !.i = q + 2]
      DoctypeTo(q2, q) ==
        IF q < 0 THEN Fail(p, "Unexpected EOF[5]")
        ELSE IF q2 > 0 /\ q > q2 THEN ComplexTo(StringIndexOf(s, <<"]", ">">>, j + 8))
        ELSE [p EXCEPT !.i = q + 1]
  IN  IF Substring(s, j + 1, j + 3) = <<"-", "-">>
      THEN CommentTo(StringIndexOf(s, <<"-", "-", ">">>, j + 3))
      ELSE IF Substring(s, j + 1, j + 8) = <<"[", "C", "D", "A", "T", "A", "[">>
      THEN CdataTo(StringIndexOf(s, <<"]", "]", ">">>, j + 8))
      ELSE IF Substring(s, j + 1, j + 8) = <<"D", "O", "C", "T", "Y", "P", "E">>
      THEN DoctypeTo(StringIndexOf(s, <<"[">>, j + 8), StringIndexOf(s, <<">">>, j + 8))
      ELSE Fail(p, "Unknown !tag")

RECURSIVE AttributeNames(_, _)
\* getName(attribute.name, false) for the attributes that were kept; the
\* first name with an unknown prefix throws
AttributeNames(scopes, kept) ==
  LET Rest(name, rest) ==
        [attributes |-> <<[name |-> name, value |-> Head(kept).value]>> \o rest.attributes,
         err |-> rest.err]
      Named(name) ==
        IF name.err # "none" THEN [attributes |-> <<>>, err |-> name.err]
        ELSE Rest(name, AttributeNames(scopes, Tail(kept)))
  IN  IF kept = <<>> THEN [attributes |-> <<>>, err |-> "none"]
      ELSE Named(getName(scopes, Head(kept).name, FALSE))

\* default: a start tag; j is the index after "<"
StartTag(s, p, j) ==
  LET Begun(after, isClosed, pushed, inScopeNamespaces, attrs, name) ==
        IF attrs.err # "none" THEN Fail(p, attrs.err)
        ELSE IF name.err # "none" THEN Fail(p, name.err)
        ELSE [i |-> after + (IF isClosed THEN 2 ELSE 1),
              scopes |-> IF isClosed THEN p.scopes ELSE pushed,
              k |-> beginElement(p.k, name, attrs.attributes, inScopeNamespaces,
                                 isClosed)]
      Pushed(content, after, isClosed, scope, pushed, inScopeNamespaces) ==
        Begun(after, isClosed, pushed, inScopeNamespaces,
              AttributeNames(pushed, scope.kept), getName(pushed, content.name, TRUE))
      InScope(content, after, isClosed, scope, inScopeNamespaces) ==
        Pushed(content, after, isClosed, scope,
               Append(p.scopes,
                      [lookup |-> scope.lookup, inScopes |-> inScopeNamespaces,
                       hasXmlns |-> scope.hasXmlns, xmlns |-> scope.xmlns,
                       space |-> scope.space]),
               inScopeNamespaces)
      Scoped(content, after, isClosed, scope) ==
        IF scope.err # "none" THEN Fail(p, scope.err)
        ELSE IF p.scopes = <<>> THEN Fail(p, "TypeError")
        ELSE InScope(content, after, isClosed, scope,
                     InScopeNamespaces(scope, p.scopes[Len(p.scopes)]))
      Closed(content, after, isClosed) ==
        IF ~isClosed /\ Substring(s, after, after + 1) # <<">">>
        THEN Fail(p, "Unexpected EOF[2]")
        ELSE Scoped(content, after, isClosed,
                    ScopeAttributes(p.scopes, EmptyScope, content.attributes))
      Parsed(content) ==
        IF content.err # "none" THEN Fail(p, content.err)
        ELSE Closed(content, j + content.parsed,
                    Substring(s, j + content.parsed, j + content.parsed + 2) = <<"/", ">">>)
  IN  Parsed(parseContent(s, j))

\* a loop that tests s[j] before it counts: j stays where the text starts
TextEndNoStep(s, j) ==
  IF j < Len(s) /\ CharAt(s, j) = "<" THEN j + 1 ELSE j

\* the loop "do {} while (j++ < s.length && s[j] !== '<')": the value of j
\* after it
RECURSIVE TextEnd(_, _)
TextEnd(s, j) ==
  IF j < Len(s) /\ CharAt(s, j + 1) # "<" THEN TextEnd(s, j + 1) ELSE j + 1

TextRun(s, p, st) ==
  LET To(j) ==
        [p EXCEPT !.i = j,
                  !.k = SinkText(p.k, resolveEntities(Substring(s, p.i, j)),
                                 isWhitespacePreserved(p.scopes), st)]
  IN  To(TextEnd(s, p.i))

\* one iteration of the main loop
ParseStep(s, p, st) ==
  IF At(s, p.i) # "<" THEN TextRun(s, p, st)
  ELSE LET ch2 == CharAt(s, p.i + 1)
       IN  IF ch2 = "/" THEN EndTag(s, p, p.i + 2)
           ELSE IF ch2 = "?" THEN PITag(s, p, p.i + 2, st)
           ELSE IF ch2 = "!" THEN BangTag(s, p, p.i + 1, st)
           ELSE StartTag(s, p, p.i + 1)

\* the main loop; it ends when the input is used up or an error is thrown
RECURSIVE ParseLoop(_, _, _)
ParseLoop(s, p, st) ==
  IF p.i >= Len(s) \/ p.k.err # "none" THEN p
  ELSE ParseLoop(s, ParseStep(s, p, st), st)

\* parseFromString: the placeholder element is the root of what is parsed
parseFromString(h, s, st) ==
  LET From(placeholder) ==
        ParseLoop(s, [i |-> 0, scopes |-> <<RootScope>>,
                      k |-> [h |-> [h EXCEPT ![placeholder] =
                                      init(Element, <<>>, <<>>, <<>>)],
                             cur |-> placeholder, stack |-> <<>>, err |-> "none"]],
                  st).k
  IN  IF Free(h) = {} THEN [h |-> h, cur |-> None, stack |-> <<>>, err |-> "arena"]
      ELSE From(Fresh(h))

\* 10.3 ToXML for a string: the node the string stands for
toXML(h, s, st) ==
  LET Of(x) ==
        IF x.err # "none" THEN [h |-> x.h, id |-> None, err |-> x.err]
        ELSE IF x.cur = None THEN [h |-> x.h, id |-> None, err |-> "TypeError"]
        ELSE IF length(x.h, x.cur) = 0
        THEN IF Free(x.h) = {} THEN [h |-> x.h, id |-> None, err |-> "arena"]
             ELSE [h |-> [x.h EXCEPT ![Fresh(x.h)] = Leaf(Text, <<>>, None)],
                   id |-> Fresh(x.h), err |-> "none"]
        ELSE IF length(x.h, x.cur) = 1
        THEN [h |-> [x.h EXCEPT ![At(x.h[x.cur].children, 0)].parent = None],
              id |-> At(x.h[x.cur].children, 0), err |-> "none"]
        ELSE [h |-> x.h, id |-> None, err |-> "TypeError"]
  IN  Of(parseFromString(h, s, st))

(***************************************************************************)
(* The serializer machine: a tree rooted at node 1 is serialized with      *)
(* toXMLString and the string is parsed back with ToXML.                   *)
(***************************************************************************)
\* the namespaces the root element declares for its own name
RootNames ==
  {[uri |-> <<>>, prefix |-> Undef, ns |-> <<>>],
   [uri |-> <<"u">>, prefix |-> Undef, ns |-> <<>>],
   [uri |-> <<"u">>, prefix |-> <<"p">>, ns |-> <<ASNamespace(<<"p">>, <<"u">>)>>],
   [uri |-> <<"u">>, prefix |-> <<>>, ns |-> <<ASNamespace(<<>>, <<"u">>)>>]}

InitSerial ==
  /\ \E r \in RootNames, taken \in BOOLEAN, attr \in {<<"-">>, <<>>, <<"w">>},
        child \in {"none", "text", "element", "escaped"} :
       nodes = [n \in NodeIds |->
                  CASE n = 1 ->
                         [init(Element, r.uri, <<"a">>, r.prefix) EXCEPT
                            !.ns = r.ns \o (IF taken
                                            THEN <<ASNamespace(<<"_", "n", "s", "1">>,
                                                               <<"v">>)>>
                                            ELSE <<>>),
                            !.attributes = IF attr = <<"-">> THEN <<>> ELSE <<2>>,
                            !.children = IF child = "none" THEN <<>> ELSE <<3>>]
                    [] n = 2 /\ attr # <<"-">> ->
                         [init(Attribute, attr, <<"x">>, Undef) EXCEPT
                            !.parent = 1, !.value = <<"1">>]
                    [] n = 3 /\ child = "text" -> Leaf(Text, <<"t">>, 1)
                    [] n = 3 /\ child = "escaped" -> Leaf(Text, <<"<", "&">>, 1)
                    [] n = 3 /\ child = "element" -> Elem(<<"b">>, <<>>, 1)
                    [] OTHER -> FreeNode]
  /\ settings \in {[DefaultSettings EXCEPT !.prettyPrinting = b] : b \in BOOLEAN}
  /\ NoLoaders
  /\ err = "none"
  /\ last = NoLast
  /\ steps = 0
  /\ lists = <<>>
  /\ sin = <<>>
  /\ sout = <<>>
  /\ doc = None
  /\ copied = NoCopy

Serialize ==
  /\ last.op = "none"
  /\ sout' = toXMLString(nodes, 1, <<>>, 0, settings).s
  /\ last' = [NoLast EXCEPT !.op = "toXMLString", !.self = 1]
  /\ UNCHANGED <<nodes, err, steps, lists, sin, doc, copied, settings>>
  /\ UNCHANGED loaderVars

Parse ==
  /\ last.op = "toXMLString"
  /\ LET Parsed(r) == /\ r.err # "arena"
                       /\ nodes' = r.h
                       /\ doc' = r.id
                       /\ err' = r.err
     IN  Parsed(toXML(nodes, sout, settings))
  /\ last' = [NoLast EXCEPT !.op = "parse", !.self = 1]
  /\ UNCHANGED <<steps, lists, sin, sout, copied, settings>>
  /\ UNCHANGED loaderVars

NextSerial ==
  \/ Serialize
  \/ Parse

SpecSerial == InitSerial /\ [][NextSerial]_vars

\* C2: round trip: for a tree x without Comment and ProcessingInstruction
\* nodes and without colliding prefixes (elements and attributes whose
\* namespace has a uri and no resolved prefix included), parsing
\* toXMLString(x) gives a tree that is deepEquals to x.
C2_RoundTrip ==
  last.op = "parse" => (err = "none" /\ doc # None /\ deepEquals(nodes, 1, doc))

\* C6: every prefix the serializer synthesizes is "_nsN" for the smallest
\* N >= 1 that is not the prefix of a namespace of the ancestors or of the
\* declarations collected so far for the element; so it is never a prefix
\* that is declared in that scope, also when several are synthesized for one
\* element.
C6_SynthesizedPrefixIsFresh ==
  last.op = "toXMLString" =>
    LET gen == toXMLString(nodes, last.self, <<>>, 0, settings).gen
        Used(g, N) == \E k \in 1..Len(g.scope) :
                        g.scope[k].prefix = <<"_", "n", "s">> \o ToDecimal(N)
    IN  \A i \in 1..Len(gen) :
          /\ \A k \in 1..Len(gen[i].scope) : gen[i].scope[k].prefix # gen[i].prefix
          /\ \E N \in 1..(Len(gen[i].scope) + 1) :
               /\ gen[i].prefix = <<"_", "n", "s">> \o ToDecimal(N)
               /\ ~Used(gen[i], N)
               /\ \A M \in 1..(N - 1) : Used(gen[i], M)

\* two prefixes were synthesized for one element that declares _ns1 itself
C6_Witness ==
  /\ last.op = "toXMLString"
  /\ LET gen == toXMLString(nodes, last.self, <<>>, 0, settings).gen
     IN  /\ Len(gen) = 2
         /\ gen[1].prefix = <<"_", "n", "s", "2">>
         /\ gen[2].prefix = <<"_", "n", "s", "3">>
         /\ \E k \in 1..Len(gen[1].scope) : gen[1].scope[k].prefix = <<"_", "n", "s", "1">>


(***************************************************************************)
(* ASXMLList: _children with _targetObject and _targetProperty.  A list    *)
(* is a record in lists; its members are arena slots.                      *)
(***************************************************************************)
MaxList == 2

\* ASXMLList.createList() with its default arguments
createList == [children |-> <<>>, targetObject |-> None, targetProperty |-> NoName]

\* the values a call returns
Undefined == [t |-> "undefined", v |-> None]

Null == [t |-> "null", v |-> None]

NodeR(n) == [t |-> "node", v |-> n]

IntR(i) == [t |-> "int", v |-> i]

StringR(s) == [t |-> "string", v |-> s]

QNameR(q) == [t |-> "qname", v |-> q]

ListR(i) == [t |-> "list", v |-> i]

Returns(h, res) == [h |-> h, err |-> "none", res |-> res]

ThrowsOneItem(h) == [h |-> h, err |-> "XMLOnlyWorksWithOneItemLists", res |-> Undefined]

\* a call that answers with what the call r on the sole member did
Forward(r, res) == [h |-> r.h, err |-> r.err, res |-> res]

\* 9.2.1.6 [[append]] (V) for an ASXML V
append(ls, self, h, V) ==
  [ls EXCEPT ![self].children = Append(ls[self].children, V),
             ![self].targetProperty = h[V].name]

\* an append of another list that leaves the receiver alone when V is empty
appendListEmptyReturns(ls, self, V) ==
  IF ls[V].children = <<>> THEN ls
  ELSE [ls EXCEPT ![self].children = ls[self].children \o ls[V].children,
                  ![self].targetObject = ls[V].targetObject,
                  ![self].targetProperty = ls[V].targetProperty]

\* 9.2.1.6 [[append]] (V) for another ASXMLList V
appendList(ls, self, V) ==
  [ls EXCEPT ![self].children = ls[self].children \o ls[V].children,
             ![self].targetObject = ls[V].targetObject,
             ![self].targetProperty = ls[V].targetProperty]

\* ASXMLList.equals without step 2.a: the members are compared as far as
\* both lists reach
XMLListEqualsNoLength(h, ls, self, other) ==
  LET children == ls[self].children
  IN  IF other.t = "undefined" /\ Len(children) = 0 THEN TRUE
      ELSE IF other.t = "list"
      THEN \A i \in 1..Len(children) :
             i <= Len(ls[other.v].children) =>
               equals(h, children[i], ls[other.v].children[i])
      ELSE Len(children) = 1 /\ other.t = "node" /\ equals(h, children[1], other.v)

\* ASXMLList.equals; other is undefined, a list or an ASXML.  A list with
\* members is asked about undefined only when it has two or more: with one
\* the answer is that of the member's step 4, outside this class.
XMLListEquals(h, ls, self, other) ==
  LET children == ls[self].children
  IN  IF other.t = "undefined" /\ Len(children) = 0 THEN TRUE
      ELSE IF other.t = "list"
      THEN IF Len(ls[other.v].children) # Len(children) THEN FALSE
           ELSE \A i \in 1..Len(children) :
                  equals(h, children[i], ls[other.v].children[i])
      ELSE Len(children) = 1 /\ other.t = "node" /\ equals(h, children[1], other.v)

\* 13.5.4.17 XMLList.prototype.parent ( ): the _parent the members share
XMLListParent(h, ls, self) ==
  LET children == ls[self].children
  IN  IF Len(children) = 0 THEN Returns(h, Undefined)
      ELSE IF \E i \in 2..Len(children) : h[children[i]].parent # h[children[1]].parent
      THEN Returns(h, Undefined)
      ELSE IF h[children[1]].parent = None THEN Returns(h, Null)
      ELSE Returns(h, NodeR(h[children[1]].parent))

\* 13.4.4.7 XML.prototype.childIndex ( )
childIndex(h, self) ==
  IF h[self].parent = None \/ h[self].kind = Attribute THEN 0 - 1
  ELSE IndexOf(h[h[self].parent].children, self)

XMLListChildIndex(h, ls, self) ==
  IF Len(ls[self].children) # 1 THEN ThrowsOneItem(h)
  ELSE Returns(h, IntR(childIndex(h, ls[self].children[1])))

\* ASXMLList.name: _children[0] is dereferenced whatever the length is
XMLListName(h, ls, self) ==
  IF Len(ls[self].children) = 0 THEN [h |-> h, err |-> "TypeError", res |-> Undefined]
  ELSE Returns(h, QNameR(h[ls[self].children[1]].name))

XMLListLocalName(h, ls, self) ==
  IF Len(ls[self].children) # 1 THEN ThrowsOneItem(h)
  ELSE Returns(h, StringR(h[ls[self].children[1]].name.localName))

\* ASXMLKindNames[_kind]
nodeKind(h, self) ==
  CASE h[self].kind = Element -> <<"element">>
    [] h[self].kind = Attribute -> <<"attribute">>
    [] h[self].kind = Text -> <<"text">>
    [] h[self].kind = Comment -> <<"comment">>
    [] h[self].kind = ProcessingInstruction -> <<"processing-instruction">>

XMLListNodeKind(h, ls, self) ==
  IF Len(ls[self].children) # 1 THEN ThrowsOneItem(h)
  ELSE Returns(h, StringR(nodeKind(h, ls[self].children[1])))

XMLListSetName(h, ls, self, a) ==
  IF Len(ls[self].children) # 1 THEN ThrowsOneItem(h)
  ELSE Forward(setName(h, ls[self].children[1], a), Undefined)

XMLListAddNamespace(h, ls, self, ns) ==
  IF Len(ls[self].children) # 1 THEN ThrowsOneItem(h)
  ELSE Forward(addNamespace(h, ls[self].children[1], ns), NodeR(ls[self].children[1]))

XMLListAppendChild(h, ls, self, child, release) ==
  IF Len(ls[self].children) # 1 THEN ThrowsOneItem(h)
  ELSE Forward(appendChild(h, ls[self].children[1], child, release),
               NodeR(ls[self].children[1]))

(***************************************************************************)
(* The list machine: two lists are filled with nodes of a small forest,    *)
(* and then compared and asked through the accessors.                      *)
(***************************************************************************)
ListCall(op, self, arg, res) == [op |-> op, self |-> self, arg |-> arg, res |-> res]

InitList ==
  /\ \E n3 \in {<<"b">>, <<"c">>} :
       nodes = [n \in NodeIds |->
                  CASE n = 1 -> Elem(<<"a">>, <<2, 3>>, None)
                    [] n = 2 -> Elem(<<"b">>, <<>>, 1)
                    [] n = 3 -> Elem(n3, <<>>, 1)
                    [] n = 4 -> Leaf(Text, <<"t">>, None)
                    [] n = 5 -> Elem(<<"d">>, <<6>>, None)
                    [] n = 6 -> Leaf(Text, <<"t">>, 5)
                    [] OTHER -> FreeNode]
  /\ lists = <<createList, createList>>
  /\ err = "none"
  /\ last = ListCall("none", None, Undefined, Undefined)
  /\ steps = 0
  /\ sin = <<>>
  /\ sout = <<>>
  /\ doc = None
  /\ copied = NoCopy
  /\ settings = DefaultSettings
  /\ NoLoaders

ListIds == 1..Len(lists)

\* the lists are filled before the call
Filling == last.op \in {"none", "append"}

\* the nodes that are put into the lists
Members == {n \in Live : n # 1 /\ nodes[n].parent # 5}

ListAppend ==
  /\ Filling
  /\ \E self \in ListIds, V \in Members :
       /\ Len(lists[self].children) < MaxList
       /\ lists' = append(lists, self, nodes, V)
       /\ last' = ListCall("append", self, NodeR(V), Undefined)
  /\ UNCHANGED <<nodes, err, steps, sin, sout, doc, copied, settings>>
  /\ UNCHANGED loaderVars

ListAppendList ==
  /\ Filling
  /\ \E self \in ListIds, V \in ListIds :
       /\ self # V
       /\ Len(lists[self].children) + Len(lists[V].children) <= MaxList
       /\ lists' = appendList(lists, self, V)
       /\ last' = ListCall("append", self, ListR(V), Undefined)
  /\ UNCHANGED <<nodes, err, steps, sin, sout, doc, copied, settings>>
  /\ UNCHANGED loaderVars

\* the call on the list self with the outcome r
Called(r, op, self, arg) ==
  /\ Filling
  /\ nodes' = r.h
  /\ err' = r.err
  /\ last' = ListCall(op, self, arg, r.res)
  /\ steps' = steps + 1
  /\ UNCHANGED <<lists, sin, sout, doc, copied, settings>>
  /\ UNCHANGED loaderVars

CallEquals ==
  \E self \in ListIds :
    \E other \in {Undefined} \cup {ListR(i) : i \in ListIds} \cup {NodeR(n) : n \in Live} :
      /\ other.t = "undefined" => Len(lists[self].children) # 1
      /\ Called(Returns(nodes, XMLListEquals(nodes, lists, self, other)),
                "equals", self, other)

CallParent ==
  \E self \in ListIds : Called(XMLListParent(nodes, lists, self), "parent", self, Undefined)

CallChildIndex ==
  \E self \in ListIds :
    Called(XMLListChildIndex(nodes, lists, self), "childIndex", self, Undefined)

CallName ==
  \E self \in ListIds : Called(XMLListName(nodes, lists, self), "name", self, Undefined)

CallLocalName ==
  \E self \in ListIds :
    Called(XMLListLocalName(nodes, lists, self), "localName", self, Undefined)

CallNodeKind ==
  \E self \in ListIds :
    Called(XMLListNodeKind(nodes, lists, self), "nodeKind", self, Undefined)

CallSetName ==
  \E self \in ListIds, s \in {<<"b">>, <<"e">>} :
    Called(XMLListSetName(nodes, lists, self, StrN(s)), "setName", self, StringR(s))

CallAddNamespace ==
  \E self \in ListIds :
    Called(XMLListAddNamespace(nodes, lists, self, ASNamespace(<<"p">>, <<"u">>)),
           "addNamespace", self, Undefined)

CallAppendChild ==
  \E self \in ListIds, child \in Live :
    /\ \A k \in 1..Len(lists[self].children) :
         /\ nodes[lists[self].children[k]].kind = Element
         /\ AncestorWalk(nodes, lists[self].children[k], child, MaxNodes) = "end"
    /\ Called(XMLListAppendChild(nodes, lists, self, child, TRUE),
              "appendChild", self, NodeR(child))

NextList ==
  \/ ListAppend
  \/ ListAppendList
  \/ CallEquals
  \/ CallParent
  \/ CallChildIndex
  \/ CallName
  \/ CallLocalName
  \/ CallNodeKind
  \/ CallSetName
  \/ CallAddNamespace
  \/ CallAppendChild

SpecList == InitList /\ [][NextList]_vars

\* C8: XMLList.equals: a list without members equals undefined; two lists
\* are equal if and only if they have the same length and their members are
\* pairwise equal in order; a list with one member equals a node exactly
\* when the member equals the node, and a list of any other length never
\* equals a node.
C8_ListEquals ==
  last.op = "equals" =>
    LET mine == lists[last.self].children
        other == last.arg
    IN  /\ (other.t = "undefined" /\ Len(mine) = 0) => last.res = TRUE
        /\ other.t = "list" =>
             (last.res <=>
                /\ Len(mine) = Len(lists[other.v].children)
                /\ \A i \in 1..Len(mine) :
                     equals(nodes, mine[i], lists[other.v].children[i]))
        /\ other.t = "node" =>
             (last.res <=> (Len(mine) = 1 /\ equals(nodes, mine[1], other.v)))

\* two different lists of two members each were found equal, member by member
C8_Witness ==
  /\ last.op = "equals"
  /\ last.arg.t = "list"
  /\ last.arg.v # last.self
  /\ Len(lists[last.self].children) = 2
  /\ lists[last.self].children # lists[last.arg.v].children
  /\ last.res = TRUE

\* the calls that forward to the sole member
ScalarAccessors ==
  {"parent", "childIndex", "name", "localName", "nodeKind", "setName", "addNamespace",
   "appendChild"}

\* C9: every scalar delegating accessor of XMLList (parent, childIndex,
\* setName, addNamespace, name, localName, nodeKind, appendChild) that is
\* called on a list whose length is not 1 raises the error
\* XMLOnlyWorksWithOneItemLists, and leaves the list and all nodes unchanged.
C9_SingleItemRequired ==
  [][(last'.op \in ScalarAccessors /\ Len(lists[last'.self].children) # 1)
       => (/\ err' = "XMLOnlyWorksWithOneItemLists"
           /\ nodes' = nodes
           /\ lists' = lists)]_vars

(***************************************************************************)
(* The parser machine: parseFromString on an input made of fragments, one  *)
(* iteration of the main loop of parseXml at a time.  nodes and err are    *)
(* the trees and the error of the sink state, steps counts the iterations, *)
(* last has the scan position, the scopes, currentElement and              *)
(* elementsStack, and doc is what the caller of parseFromString receives.  *)
(***************************************************************************)
MaxFrags == 2

\* the pieces of markup the inputs are made of
Fragment ==
  ("open" :> <<"<", "a", ">">>) @@
  ("close" :> <<"<", "/", "a", ">">>) @@
  ("empty" :> <<"<", "b", " ", "x", "=", "\"", "1", "\"", "/", ">">>) @@
  ("text" :> <<"t">>) @@
  ("comment" :> <<"<", "!", "-", "-", "c", "-", "-", ">">>) @@
  ("noEquals" :> <<"<", "a", " ", "x", ">">>) @@
  ("noQuote" :> <<"<", "a", " ", "x", "=", "1", ">">>) @@
  ("noPrefix" :> <<"<", "q", ":", "a", "/", ">">>) @@
  ("noAttributePrefix" :> <<"<", "a", " ", "q", ":", "x", "=", "\"", "1", "\"", "/", ">">>) @@
  ("inheritedPrefix" :> <<"<", "t", "o", "S", "t", "r", "i", "n", "g", ":", "a", "/", ">">>) @@
  ("openTag" :> <<"<", "a">>) @@
  ("openComment" :> <<"<", "!", "-", "-", "c">>) @@
  ("openCdata" :> <<"<", "!", "[", "C", "D", "A", "T", "A", "[", "d">>) @@
  ("openPi" :> <<"<", "?", "t", " ", "v">>) @@
  ("openDoctype" :> <<"<", "!", "D", "O", "C", "T", "Y", "P", "E", " ", "d">>) @@
  ("openQuote" :> <<"<", "a", " ", "x", "=", "\"", "1">>)

\* markup that is complete and well formed
WellFormed == {"open", "close", "empty", "text", "comment"}

\* tags that end with > but miss a '=' or a quote, or use a prefix that no
\* scope declares
Broken == {"noEquals", "noQuote", "noPrefix", "noAttributePrefix", "inheritedPrefix"}

\* markup that the input ends in the middle of
Unterminated == {"openTag", "openComment", "openCdata", "openPi", "openDoctype", "openQuote"}

\* the inputs: up to n fragments, an unterminated one only at the end
RECURSIVE FragmentSeqs(_)
FragmentSeqs(n) ==
  IF n = 0 THEN {<<>>}
  ELSE FragmentSeqs(n - 1) \cup
       {Append(fs, f) : fs \in {x \in FragmentSeqs(n - 1) :
                                  \A k \in 1..Len(x) : x[k] \notin Unterminated},
                        f \in DOMAIN Fragment}

RECURSIVE Joined(_)
Joined(fs) == IF fs = <<>> THEN <<>> ELSE Fragment[Head(fs)] \o Joined(Tail(fs))

\* the parser state of the machine as a record p of the parser operators
ParserState ==
  [i |-> last.i, scopes |-> last.scopes,
   k |-> [h |-> nodes, cur |-> last.cur, stack |-> last.stack, err |-> err]]

InitParse ==
  /\ \E fs \in FragmentSeqs(MaxFrags) :
       /\ sin = Joined(fs)
       /\ last = [op |-> "parseXml", frags |-> fs, i |-> 0, scopes |-> <<RootScope>>,
                  cur |-> 1, stack |-> <<>>]
  /\ nodes = [n \in NodeIds |-> IF n = 1 THEN init(Element, <<>>, <<>>, <<>>) ELSE FreeNode]
  /\ err = "none"
  /\ steps = 0
  /\ lists = <<>>
  /\ sout = <<>>
  /\ doc = None
  /\ copied = NoCopy
  /\ settings = DefaultSettings
  /\ NoLoaders

\* one iteration of "while (i < s.length)"
ParseIterate ==
  /\ last.op = "parseXml"
  /\ err = "none"
  /\ last.i < Len(sin)
  /\ LET Stepped(p) ==
           /\ p.k.err # "arena"
           /\ nodes' = p.k.h
           /\ err' = p.k.err
           /\ last' = [last EXCEPT !.i = p.i, !.scopes = p.scopes, !.cur = p.k.cur,
                                   !.stack = p.k.stack]
     IN  Stepped(ParseStep(sin, ParserState, settings))
  /\ steps' = steps + 1
  /\ UNCHANGED <<lists, sin, sout, doc, copied, settings>>
  /\ UNCHANGED loaderVars

\* the loop is over: "return currentElement"
ParseReturn ==
  /\ last.op = "parseXml"
  /\ err = "none"
  /\ last.i >= Len(sin)
  /\ doc' = last.cur
  /\ last' = [last EXCEPT !.op = "returned"]
  /\ UNCHANGED <<nodes, err, steps, lists, sin, sout, copied, settings>>
  /\ UNCHANGED loaderVars

\* a throw leaves parseXml and parseFromString: nothing is returned
ParseThrow ==
  /\ last.op = "parseXml"
  /\ err # "none"
  /\ last' = [last EXCEPT !.op = "thrown"]
  /\ UNCHANGED <<nodes, err, steps, lists, sin, sout, doc, copied, settings>>
  /\ UNCHANGED loaderVars

NextParse ==
  \/ ParseIterate
  \/ ParseReturn
  \/ ParseThrow

SpecParse == InitParse /\ [][NextParse]_vars

\* C11: parsing an input that contains an unterminated tag, comment, CDATA
\* section, processing instruction or DOCTYPE, an attribute with a missing
\* '=' or a missing quote, or a name with an undeclared prefix ends in an
\* error, and the caller of parseFromString receives no tree.
C11_MalformedThrows ==
  (/\ last.op \in {"returned", "thrown"}
   /\ \E k \in 1..Len(last.frags) : last.frags[k] \in Broken \cup Unterminated)
    => (last.op = "thrown" /\ err # "none" /\ doc = None)

(***************************************************************************)
(* The settings of ASXML: the four flags of _flags and _prettyIndent, read *)
(* and written through the static accessors, settings(), setSettings(o)    *)
(* and defaultSettings().  A property of o is a typed value or is absent.  *)
(***************************************************************************)
MaxIndent == 2

BooleanV(b) == [t |-> "boolean", v |-> b, s |-> "", n |-> 0]

NumberV(n) == [t |-> "number", v |-> FALSE, s |-> "", n |-> n]

StringV(str) == [t |-> "string", v |-> FALSE, s |-> str, n |-> 0]

\* typeof x === 'boolean'
IsBoolean(x) == x.t = "boolean"

\* x === 'boolean', x === 'number'
IsTheString(x, str) == x.t = "string" /\ x.s = str

\* !!x for a boolean or a string
ToBoolean(x) == IF x.t = "boolean" THEN x.v ELSE x.s # ""

\* x | 0 for a small integer or a string that is no numeral
ToInt32(x) == IF x.t = "number" THEN x.n ELSE 0

\* ASXML.settings()
native_settings(st) ==
  [ignoreComments |-> st.ignoreComments,
   ignoreProcessingInstructions |-> st.ignoreProcessingInstructions,
   ignoreWhitespace |-> st.ignoreWhitespace,
   prettyPrinting |-> st.prettyPrinting,
   prettyIndent |-> st.prettyIndent]

\* ASXML.defaultSettings()
native_defaultSettings ==
  [ignoreComments |-> TRUE, ignoreProcessingInstructions |-> TRUE,
   ignoreWhitespace |-> TRUE, prettyPrinting |-> TRUE, prettyIndent |-> 2]

\* ASXML.setSettings(o) for an object o: the last two tests compare the value
\* itself with the strings 'boolean' and 'number'
native_setSettings(st, o) ==
  [ignoreComments |-> IF IsBoolean(o.ignoreComments) THEN o.ignoreComments.v
                      ELSE st.ignoreComments,
   ignoreProcessingInstructions |->
     IF IsBoolean(o.ignoreProcessingInstructions) THEN o.ignoreProcessingInstructions.v
     ELSE st.ignoreProcessingInstructions,
   ignoreWhitespace |-> IF IsBoolean(o.ignoreWhitespace) THEN o.ignoreWhitespace.v
                        ELSE st.ignoreWhitespace,
   prettyPrinting |-> IF IsTheString(o.prettyPrinting, "boolean")
                      THEN ToBoolean(o.prettyPrinting)
                      ELSE st.prettyPrinting,
   prettyIndent |-> IF IsTheString(o.prettyIndent, "number") THEN ToInt32(o.prettyIndent)
                    ELSE st.prettyIndent]

\* ASXML.setSettings(null) and ASXML.setSettings(undefined)
setSettingsNull(st) ==
  [ignoreComments |-> TRUE, ignoreProcessingInstructions |-> TRUE,
   ignoreWhitespace |-> TRUE, prettyPrinting |-> TRUE, prettyIndent |-> 2]

\* the objects handed to setSettings
SettingsObjects ==
  [ignoreComments : {BooleanV(b) : b \in BOOLEAN},
   ignoreProcessingInstructions : {BooleanV(b) : b \in BOOLEAN},
   ignoreWhitespace : {BooleanV(b) : b \in BOOLEAN},
   prettyPrinting : {BooleanV(b) : b \in BOOLEAN} \cup {StringV("boolean")},
   prettyIndent : {NumberV(n) : n \in 0..MaxIndent} \cup {StringV("number")}]

NoObject == [ignoreComments |-> StringV(""), ignoreProcessingInstructions |-> StringV(""),
             ignoreWhitespace |-> StringV(""), prettyPrinting |-> StringV(""),
             prettyIndent |-> StringV("")]

SettingsCall(op, o) == [op |-> op, o |-> o, read |-> native_defaultSettings]

InitSettings ==
  /\ settings = DefaultSettings
  /\ NoLoaders
  /\ last = SettingsCall("none", NoObject)
  /\ nodes = [n \in NodeIds |-> FreeNode]
  /\ err = "none"
  /\ steps = 0
  /\ lists = <<>>
  /\ sin = <<>>
  /\ sout = <<>>
  /\ doc = None
  /\ copied = NoCopy

\* a call that leaves the settings st
Configured(st, op, o) ==
  /\ settings' = st
  /\ last' = [op |-> op, o |-> o, read |-> native_settings(st)]
  /\ UNCHANGED <<nodes, err, steps, lists, sin, sout, doc, copied>>
  /\ UNCHANGED loaderVars

\* setSettings(o) and then settings()
SetSettings ==
  \E o \in SettingsObjects : Configured(native_setSettings(settings, o), "setSettings", o)

\* setSettings(null) and then settings()
SetSettingsNull == Configured(setSettingsNull(settings), "setSettingsNull", NoObject)

\* the static setters
SetIgnoreComments ==
  \E b \in BOOLEAN :
    Configured([settings EXCEPT !.ignoreComments = ToBoolean(BooleanV(b))],
               "ignoreComments", NoObject)

SetIgnoreProcessingInstructions ==
  \E b \in BOOLEAN :
    Configured([settings EXCEPT !.ignoreProcessingInstructions = ToBoolean(BooleanV(b))],
               "ignoreProcessingInstructions", NoObject)

SetIgnoreWhitespace ==
  \E b \in BOOLEAN :
    Configured([settings EXCEPT !.ignoreWhitespace = ToBoolean(BooleanV(b))],
               "ignoreWhitespace", NoObject)

SetPrettyPrinting ==
  \E b \in BOOLEAN :
    Configured([settings EXCEPT !.prettyPrinting = ToBoolean(BooleanV(b))],
               "prettyPrinting", NoObject)

SetPrettyIndent ==
  \E n \in 0..MaxIndent :
    Configured([settings EXCEPT !.prettyIndent = ToInt32(NumberV(n))],
               "prettyIndent", NoObject)

NextSettings ==
  \/ SetSettings
  \/ SetSettingsNull
  \/ SetIgnoreComments
  \/ SetIgnoreProcessingInstructions
  \/ SetIgnoreWhitespace
  \/ SetPrettyPrinting
  \/ SetPrettyIndent

SpecSettings == InitSettings /\ [][NextSettings]_vars

\* C12: for every object o with boolean ignoreComments,
\* ignoreProcessingInstructions, ignoreWhitespace, prettyPrinting and a
\* numeric prettyIndent, settings() after setSettings(o) returns the five
\* values of o; and setSettings(null) restores the defaults (the four flags
\* true, prettyIndent 2) from any state.
C12_SettingsRoundTrip ==
  /\ (/\ last.op = "setSettings"
      /\ IsBoolean(last.o.prettyPrinting)
      /\ last.o.prettyIndent.t = "number")
       => /\ last.read.ignoreComments = last.o.ignoreComments.v
          /\ last.read.ignoreProcessingInstructions = last.o.ignoreProcessingInstructions.v
          /\ last.read.ignoreWhitespace = last.o.ignoreWhitespace.v
          /\ last.read.prettyPrinting = last.o.prettyPrinting.v
          /\ last.read.prettyIndent = last.o.prettyIndent.n
  /\ last.op = "setSettingsNull" => last.read = native_defaultSettings

(***************************************************************************)
(* Claims on normalize, checked on the tree machine.                       *)
(***************************************************************************)
\* C13: after x.normalize() on an Element x that returned, no Element in
\* the subtree of x has two adjacent Text children, and none has a Text
\* child with an empty value.
C13_NormalizeMergesText ==
  (last.op = "normalize" /\ err = "none") =>
    \A e \in Subtree(nodes, last.self, MaxNodes) :
      nodes[e].kind = Element =>
        /\ \A i \in 1..Len(nodes[e].children) :
             nodes[nodes[e].children[i]].kind = Text
               => nodes[nodes[e].children[i]].value # <<>>
        /\ \A i \in 1..(Len(nodes[e].children) - 1) :
             ~(/\ nodes[nodes[e].children[i]].kind = Text
               /\ nodes[nodes[e].children[i + 1]].kind = Text)

\* C14: normalize never removes, reorders or changes a Comment,
\* ProcessingInstruction or Element child, nor an attribute: for every
\* Element of the subtree the sequence of its children that are no Text, and
\* the parent of each of them, are the same before and after the call.
C14_NormalizeKeepsOthers ==
  [][(last'.op = "normalize" /\ err' = "none") =>
       \A e \in Subtree(nodes, last'.self, MaxNodes) :
         nodes[e].kind = Element =>
           /\ SelectSeq(nodes'[e].children, LAMBDA c : nodes'[c].kind # Text)
                = SelectSeq(nodes[e].children, LAMBDA c : nodes[c].kind # Text)
           /\ nodes'[e].attributes = nodes[e].attributes
           /\ \A c \in Range(nodes[e].children) \cup Range(nodes[e].attributes) :
                nodes[c].kind # Text => nodes'[c].parent = nodes[c].parent]_vars

(***************************************************************************)
(* [[Put]] of an attribute with every kind of value: steps 3 and 6.b-6.c   *)
(* make the string c from a primitive, a node or an XMLList.               *)
(***************************************************************************)
ListV(i) == [t |-> "list", id |-> i, s |-> <<>>]

\* 10.1 ToString of a node, complex content included
toStringAny(h, node, st) ==
  IF h[node].kind \in {Text, Attribute} THEN h[node].value
  ELSE IF hasSimpleContent(h, node) THEN ConcatValues(h, h[node].children)
  ELSE toXMLString(h, node, <<>>, 0, st).s

\* step 6.b.ii: s += ' ' + toString(c._children[j]) from the member j on
RECURSIVE JoinFrom(_, _, _, _)
JoinFrom(h, ids, j, st) ==
  IF j > Len(ids) THEN <<>>
  ELSE <<" ">> \o toStringAny(h, ids[j], st) \o JoinFrom(h, ids, j + 1, st)

\* step 6.b: the string of an XMLList
JoinStrings(h, ids, st) ==
  IF ids = <<>> THEN <<>>
  ELSE toStringAny(h, ids[1], st) \o JoinFrom(h, ids, 2, st)

\* steps 3, 6.b and 6.c: c is toString(v) for a primitive, a text or an
\* attribute, and the string of the deep copy of v otherwise
AttributeString(h, ls, v, st) ==
  LET OfCopy(r) == [h |-> r.h, c |-> toStringAny(r.h, r.id, st)]
      OfCopies(r) == [h |-> r.h, c |-> JoinStrings(r.h, r.ids, st)]
  IN  IF v.t = "str" THEN [h |-> h, c |-> v.s]
      ELSE IF v.t = "list" THEN OfCopies(CopyEach(h, ls[v.id].children, None, <<>>))
      ELSE IF h[v.id].kind \in {Text, Attribute} THEN [h |-> h, c |-> h[v.id].value]
      ELSE OfCopy(deepCopy(h, v.id))

\* ASXML.setProperty(p, true, v) for a name n
setAttribute(h, ls, self, n, v, st) ==
  LET With(r) == putAttribute(r.h, self, n, r.c)
  IN  IF IsLeafKind(h[self].kind) THEN Ok(h)
      ELSE With(AttributeString(h, ls, v, st))

\* the arena slots the call may take: the copy of v and a new attribute
AttributeNeeds(h, ls, self, n, v) ==
  (IF \E k \in 1..Len(h[self].attributes) : QNameEquals(h[h[self].attributes[k]].name, n)
   THEN 0 ELSE 1)
    + (IF v.t = "str" THEN 0
       ELSE IF v.t = "list" THEN SumSizes(h, ls[v.id].children)
       ELSE IF h[v.id].kind \in {Text, Attribute} THEN 0
       ELSE CopySize(h, v.id))

(***************************************************************************)
(* The attribute machine: an element with up to three attributes, some of  *)
(* the same name, is assigned attributes with strings, nodes and lists.    *)
(***************************************************************************)
AttributeQNames ==
  {ASQName(NoNamespace, <<"x">>, TRUE), ASQName(NoNamespace, <<"y">>, TRUE),
   ASQName(ASNamespace(Undef, <<"u">>), <<"x">>, TRUE)}

InitAttr ==
  /\ \E count \in 0..3, n2 \in {<<"x">>, <<"y">>}, n3 \in {<<"x">>, <<"y">>},
        kid \in {"none", "text", "element"} :
       /\ kid # "none" => count = 0
       /\ nodes = [n \in NodeIds |->
                     CASE n = 1 -> [Elem(<<"a">>, <<>>, None) EXCEPT
                                      !.attributes = [k \in 1..count |-> k + 1]]
                       [] n \in 2..(count + 1) ->
                            [init(Attribute, <<>>,
                                  IF n = 2 THEN n2 ELSE IF n = 3 THEN n3 ELSE <<"x">>,
                                  Undef) EXCEPT !.parent = 1, !.value = <<"1">>]
                       [] n = 4 /\ kid = "text" -> Leaf(Text, <<"s">>, 6)
                       [] n = 4 /\ kid = "element" -> Elem(<<"c">>, <<>>, 6)
                       [] n = 5 -> Leaf(Text, <<"t">>, None)
                       [] n = 6 -> Elem(<<"b">>, IF kid = "none" THEN <<>> ELSE <<4>>, None)
                       [] OTHER -> FreeNode]
  /\ lists = <<createList, [createList EXCEPT !.children = <<5>>],
               [createList EXCEPT !.children = <<5, 6>>]>>
  /\ err = "none"
  /\ last = [op |-> "none", self |-> None, n |-> NoName, v |-> StrV(<<>>)]
  /\ steps = 0
  /\ sin = <<>>
  /\ sout = <<>>
  /\ doc = None
  /\ copied = NoCopy
  /\ settings = DefaultSettings
  /\ NoLoaders

SetAttribute ==
  /\ steps < MaxOps
  /\ \E n \in AttributeQNames :
       \E v \in {StrV(<<>>), StrV(<<"z">>)} \cup {XmlV(x) : x \in Live \ {1}}
                \cup {ListV(i) : i \in 1..Len(lists)} :
         /\ AttributeNeeds(nodes, lists, 1, n, v) <= Cardinality(Free(nodes))
         /\ LET Done(r) == /\ nodes' = r.h
                           /\ err' = r.err
            IN  Done(setAttribute(nodes, lists, 1, n, v, settings))
         /\ last' = [op |-> "setAttribute", self |-> 1, n |-> n, v |-> v]
  /\ steps' = steps + 1
  /\ UNCHANGED <<lists, sin, sout, doc, copied, settings>>
  /\ UNCHANGED loaderVars

NextAttr == SetAttribute

SpecAttr == InitAttr /\ [][NextAttr]_vars

\* the string coercion of v: a string itself, toString of a node, and the
\* toString of the members of a list with one space between them
Coerced(h, ls, v, st) ==
  IF v.t = "str" THEN v.s
  ELSE IF v.t = "xml" THEN toStringAny(h, v.id, st)
  ELSE JoinStrings(h, ls[v.id].children, st)

\* C15: after set(name, isAttribute = true, v) on an Element exactly one
\* attribute with that name exists on the element, its value is the string
\* coercion of v (the members of an XMLList joined with single spaces), it
\* is at the position of the first attribute that matched before, or at the
\* end if there was none, every attribute with another name is unchanged
\* and keeps its relative order, and every discarded duplicate has no parent.
C15_SetAttribute ==
  [][last'.op = "setAttribute" =>
       LET self == last'.self
           n == last'.n
           old == nodes[self].attributes
           new == nodes'[self].attributes
           was == {k \in 1..Len(old) : QNameEquals(nodes[old[k]].name, n)}
           now == {k \in 1..Len(new) : QNameEquals(nodes'[new[k]].name, n)}
       IN  /\ err' = "none"
           /\ Cardinality(now) = 1
           /\ \A k \in now :
                /\ nodes'[new[k]].value = Coerced(nodes, lists, last'.v, settings)
                /\ nodes'[new[k]].parent = self
                /\ IF was = {} THEN k = Len(new) /\ Len(new) = Len(old) + 1
                   ELSE /\ \A m \in was : k <= m
                        /\ new[k] = old[k]
           /\ SelectSeq(new, LAMBDA a : ~QNameEquals(nodes'[a].name, n))
                = SelectSeq(old, LAMBDA a : ~QNameEquals(nodes[a].name, n))
           /\ \A k \in 1..Len(old) :
                /\ k \notin was => nodes'[old[k]] = nodes[old[k]]
                /\ (k \in was /\ \E m \in was : m < k) => nodes'[old[k]].parent = None]_vars

\* an attribute that was there twice got the string of a list of two
\* members, and the later one was discarded
C15_Witness ==
  /\ last.op = "setAttribute"
  /\ last.v = ListV(3)
  /\ last.n = ASQName(NoNamespace, <<"x">>, TRUE)
  /\ nodes[1].attributes = <<2>>
  /\ nodes[2].value = <<"t", " ">>
  /\ nodes[3].kind = Attribute
  /\ nodes[3].parent = None

(***************************************************************************)
(* The element machine: an element with up to three children, some of the  *)
(* same name, is assigned child elements by name with strings and nodes.   *)
(***************************************************************************)
ElementQNames ==
  {ASQName(NoNamespace, <<"b">>, FALSE), ASQName(NoNamespace, <<"d">>, FALSE)}

InitPut ==
  /\ \E k3 \in {"none", "b", "c", "text"}, k4 \in {"none", "b"} :
       /\ k4 # "none" => k3 # "none"
       /\ nodes = [n \in NodeIds |->
                     CASE n = 1 -> Elem(<<"a">>,
                                        <<2>> \o (IF k3 = "none" THEN <<>> ELSE <<3>>)
                                              \o (IF k4 = "none" THEN <<>> ELSE <<4>>),
                                        None)
                       [] n = 2 -> Elem(<<"b">>, <<>>, 1)
                       [] n = 3 /\ k3 = "b" -> Elem(<<"b">>, <<>>, 1)
                       [] n = 3 /\ k3 = "c" -> Elem(<<"c">>, <<>>, 1)
                       [] n = 3 /\ k3 = "text" -> Leaf(Text, <<"y">>, 1)
                       [] n = 4 /\ k4 = "b" -> Elem(<<"b">>, <<>>, 1)
                       [] n = 5 -> Leaf(Text, <<"t">>, None)
                       [] n = 6 -> Elem(<<"d">>, <<>>, None)
                       [] OTHER -> FreeNode]
  /\ lists = <<>>
  /\ err = "none"
  /\ last = [op |-> "none", self |-> None, n |-> NoName, v |-> StrV(<<>>)]
  /\ steps = 0
  /\ sin = <<>>
  /\ sout = <<>>
  /\ doc = None
  /\ copied = NoCopy
  /\ settings = DefaultSettings
  /\ NoLoaders

\* the nodes that the assignment of v to the children named n creates
ElementNeeds(h, self, n, v) ==
  IF IsPrimitive(h, v)
  THEN (IF \E k \in 1..Len(h[self].children) : MatchesChild(h, h[self].children[k], n)
        THEN 0 ELSE 1)
       + (IF CoerceString(h, v) = <<>> THEN 0 ELSE 1)
  ELSE CopySize(h, v.id)

SetElement ==
  /\ steps < MaxOps
  /\ \E n \in ElementQNames :
       \E v \in {StrV(<<>>), StrV(<<"z">>), XmlV(5), XmlV(6)} :
         /\ ElementNeeds(nodes, 1, n, v) <= Cardinality(Free(nodes))
         /\ LET Done(r) == /\ nodes' = r.h
                           /\ err' = r.err
            IN  Done(setProperty(nodes, 1, n, FALSE, v))
         /\ last' = [op |-> "setElement", self |-> 1, n |-> n, v |-> v]
  /\ steps' = steps + 1
  /\ UNCHANGED <<lists, sin, sout, doc, copied, settings>>
  /\ UNCHANGED loaderVars

NextPut == SetElement

SpecPut == InitPut /\ [][NextPut]_vars

\* the index of s that survives among the indices in hits
Survivor(hits, lowest) ==
  IF lowest THEN CHOOSE k \in hits : \A m \in hits : k <= m
  ELSE CHOOSE k \in hits : \A m \in hits : m <= k

\* s without the members at the indices in hits other than keep
RECURSIVE Without(_, _, _, _)
Without(s, hits, keep, k) ==
  IF k > Len(s) THEN <<>>
  ELSE (IF k \in hits /\ k # keep THEN <<>> ELSE <<s[k]>>) \o Without(s, hits, keep, k + 1)

\* the content that an assigned string c leaves in the element e
HoldsString(h, e, c) ==
  IF c = <<>> THEN h[e].children = <<>>
  ELSE /\ Len(h[e].children) = 1
       /\ h[h[e].children[1]].kind = Text
       /\ h[h[e].children[1]].value = c
       /\ h[h[e].children[1]].parent = e

\* what a step that assigns by name leaves behind, with the match that
\* survives being the one of the lowest or of the highest index
PutLeaves(h, g, self, n, v, lowest, onlyStrings) ==
  LET old == h[self].children
      new == g[self].children
      was == {k \in 1..Len(old) : MatchesChild(h, old[k], n)}
      now == {k \in 1..Len(new) : MatchesChild(g, new[k], n)}
      isString == IsPrimitive(h, v)
      keep == IF was = {} THEN 0 ELSE Survivor(was, lowest)
      rest == Without(old, was, keep, 1)
      at == IF was = {} THEN Len(old) + 1
            ELSE Cardinality({k \in 1..keep : k \notin was \/ k = keep})
  IN  /\ Len(new) = (IF was = {} THEN Len(old) + 1 ELSE Len(rest))
      /\ \A j \in 1..Len(new) : j # at => new[j] = rest[j] /\ g[new[j]] = h[new[j]]
      /\ (isString \/ ~onlyStrings) => now = {at}
      /\ g[new[at]].parent = self
      /\ isString =>
           /\ was # {} => new[at] = old[keep]
           /\ g[new[at]].kind = Element
           /\ HoldsString(g, new[at], CoerceString(h, v))
      /\ ~isString => (new[at] \notin Range(old) /\ deepEquals(g, new[at], v.id))

\* C16 as stated: after set(name, false, v) on an Element x with a name that
\* is no wildcard, all matches but the first one found by the reverse scan
\* (the one of the highest index) are deleted and that one is overwritten,
\* one match is overwritten in place, and without a match a new child is
\* appended; in every case exactly one child element matching the name
\* remains, the other children keep their identity and order, and for a
\* value that is no XML the remaining child holds a single Text child with
\* the string of v, or no child when that string is empty.
C16_SetKeepsFirstFound ==
  [][last'.op = "setElement" =>
       /\ err' = "none"
       /\ PutLeaves(nodes, nodes', last'.self, last'.n, last'.v, FALSE, FALSE)]_vars

\* C16 amended: all matches but the one of the lowest index (the last one
\* found by the reverse scan) are deleted and that one is overwritten; for a
\* value that is no XML exactly one child element matching the name remains
\* and it holds a single Text child with the string of v, or no child when
\* that string is empty; for an XML value the child at that position is a
\* deep copy of v, whatever its name; the other children keep their identity
\* and order.
C16_SetKeepsLowest ==
  [][last'.op = "setElement" =>
       /\ err' = "none"
       /\ PutLeaves(nodes, nodes', last'.self, last'.n, last'.v, TRUE, TRUE)]_vars

\* three children b, c, b were assigned b = "z": the first b holds the text
\* and the c follows it
C16_Witness ==
  /\ last.op = "setElement"
  /\ last.n = ASQName(NoNamespace, <<"b">>, FALSE)
  /\ last.v = StrV(<<"z">>)
  /\ nodes[1].children = <<2, 3>>
  /\ nodes[3].name.localName = <<"c">>
  /\ nodes[4].kind = Element /\ nodes[4].parent = None
  /\ HoldsString(nodes, 2, <<"z">>)

(***************************************************************************)
(* Deep equality against the position by position comparison of two trees. *)
(***************************************************************************)
\* the attributes of x and of y pair off one-to-one by name and value
AttributesPairOff(h, x, y) ==
  LET ax == h[x].attributes
      ay == h[y].attributes
  IN  /\ Len(ax) = Len(ay)
      /\ \E p \in [1..Len(ax) -> 1..Len(ay)] :
           /\ \A i, j \in 1..Len(ax) : p[i] = p[j] => i = j
           /\ \A i \in 1..Len(ax) :
                /\ QNameEquals(h[ax[i]].name, h[ay[p[i]]].name)
                /\ h[ax[i]].value = h[ay[p[i]]].value

\* x and y have the same kind, name and value, attributes that pair off and
\* children that are the same tree position by position
RECURSIVE SameTree(_, _, _)
SameTree(h, x, y) ==
  /\ h[x].kind = h[y].kind
  /\ QNameEquals(h[x].name, h[y].name)
  /\ h[x].kind # Element => h[x].value = h[y].value
  /\ h[x].kind = Element =>
       /\ AttributesPairOff(h, x, y)
       /\ Len(h[x].children) = Len(h[y].children)
       /\ \A i \in 1..Len(h[x].children) :
            SameTree(h, h[x].children[i], h[y].children[i])

\* C17: deepEquals(x, y) is true only if x and y have the same kind and
\* equal names and, for other kinds than Element, equal values, and for
\* elements attributes that match one-to-one by name and value and the same
\* number of children with child i of x deepEquals to child i of y: the two
\* trees have the same kind of node at every position.
C17_DeepEqualsSameTree ==
  \A x, y \in Live : deepEquals(nodes, x, y) => SameTree(nodes, x, y)

(***************************************************************************)
(* The index machine: lists with and without a write-back target are       *)
(* assigned at an index at or beyond their length, and appended to each    *)
(* other.  A target object is None, the id of an ASXML, or the id of an    *)
(* ASXMLList with the sign changed.  No target property of the machine is  *)
(* an attribute name.                                                      *)
(***************************************************************************)
TargetList(i) == 0 - i

IsNullName(n) == n.localName = <<>>

\* steps 2.a-2.c.ii of ASXMLList.setProperty: the resolved target r of the
\* list self, and whether the assignment beyond the length returns at once.
\* resolveValue returns the target itself.
ResolvedTarget(ls, self) ==
  LET r == ls[self].targetObject
  IN  IF r < 0 /\ Len(ls[0 - r].children) = 1 THEN ls[0 - r].children[1] ELSE r

\* an assignment that is ignored also when the list has no target object
IgnoredWithoutTarget(h, ls, self) ==
  LET r == ls[self].targetObject
  IN  \/ r = None
      \/ r < 0 /\ Len(ls[0 - r].children) # 1
      \/ r > 0 /\ h[r].kind # Element
      \/ r < 0 /\ Len(ls[0 - r].children) = 1 /\ h[ls[0 - r].children[1]].kind # Element

Ignored(h, ls, self) ==
  LET r == ls[self].targetObject
  IN  \/ r < 0 /\ Len(ls[0 - r].children) # 1
      \/ r > 0 /\ h[r].kind # Element
      \/ r < 0 /\ Len(ls[0 - r].children) = 1 /\ h[ls[0 - r].children[1]].kind # Element

ListResult(h, ls, e) == [h |-> h, ls |-> ls, err |-> e]

\* step 2.c.viii.1: r._children[j + 1] = y.  The loop bound r.length - 1
\* subtracts from the method length, so it is NaN, the loop body never runs
\* and j stays 0 for a list with members; the assignment overwrites the
\* child at j + 1 when there is one.
PlaceInTarget(h, r, y, len) ==
  LET j == IF len > 0 THEN 0 ELSE length(h, r) - 1
      cs == h[r].children
  IN  [h EXCEPT ![r].children =
         IF j + 2 <= Len(cs) THEN [cs EXCEPT ![j + 2] = y] ELSE Append(cs, y)]

\* 9.2.1.2 [[Put]] (P, V) of ASXMLList for an index i at or beyond the
\* length and a value v that is a string or an element
XMLListSetProperty(h, ls, self, i, v) ==
  LET len == Len(ls[self].children)
      r == ResolvedTarget(ls, self)
      tp == ls[self].targetProperty
      asText == IsNullName(tp) \/ tp.localName = <<"*">>
      y == Fresh(h)
      yname == IF v.t = "xml" THEN h[v.id].name
               ELSE IF asText THEN Leaf(Text, <<>>, None).name ELSE tp
      h0 == [h EXCEPT ![y] = [Leaf(IF asText THEN Text ELSE Element, <<>>, r)
                                EXCEPT !.name = yname]]
      h1 == IF r # None THEN PlaceInTarget(h0, r, y, len) ELSE h0
      ls1 == append(ls, self, h1, y)
  IN  IF Ignored(h, ls, self) THEN ListResult(h, ls, "none")
      ELSE IF v.t = "xml" \/ asText
      THEN \* step 2.g: parent.replace(q, c) with c undefined reads c._kind
           IF r # None THEN ListResult(h1, ls1, "TypeError")
           ELSE IF v.t = "str"
           THEN ListResult([h1 EXCEPT ![y] = Leaf(Text, v.s, None)], ls1, "none")
           ELSE ListResult([h1 EXCEPT ![y] = FreeNode],
                           [ls1 EXCEPT ![self].children[len + 1] = v.id], "none")
      ELSE \* step 2.h
           LET Put(res) == ListResult(res.h, ls1, res.err)
           IN  Put(setProperty(h1, y, AnyQName, FALSE, v))

IndexCall(op, self, i, v, V) ==
  [op |-> op, self |-> self, i |-> i, v |-> v, V |-> V, n |-> NoName]

InitIndex ==
  /\ nodes = [n \in NodeIds |->
                CASE n = 1 -> Elem(<<"a">>, <<2, 3>>, None)
                  [] n = 2 -> Elem(<<"b">>, <<>>, 1)
                  [] n = 3 -> Elem(<<"c">>, <<>>, 1)
                  [] n = 4 -> Leaf(Text, <<"t">>, None)
                  [] n = 5 -> Elem(<<"d">>, <<>>, None)
                  [] OTHER -> FreeNode]
  /\ lists = << createList,
                [children |-> <<2>>, targetObject |-> 1,
                 targetProperty |-> ASQName(NoNamespace, <<"b">>, FALSE)],
                [children |-> <<>>, targetObject |-> 1,
                 targetProperty |-> ASQName(NoNamespace, <<"d">>, FALSE)],
                [children |-> <<>>, targetObject |-> 4,
                 targetProperty |-> ASQName(NoNamespace, <<"b">>, FALSE)],
                [children |-> <<>>, targetObject |-> TargetList(2),
                 targetProperty |-> ASQName(NoNamespace, <<"d">>, FALSE)],
                [children |-> <<>>, targetObject |-> TargetList(7),
                 targetProperty |-> ASQName(NoNamespace, <<"d">>, FALSE)],
                [children |-> <<2, 3>>, targetObject |-> 1,
                 targetProperty |-> AnyQName],
                [children |-> <<>>, targetObject |-> None,
                 targetProperty |-> ASQName(NoNamespace, <<"d">>, FALSE)] >>
  /\ err = "none"
  /\ last = IndexCall("none", 0, 0, StrV(<<>>), 0)
  /\ steps = 0
  /\ sin = <<>>
  /\ sout = <<>>
  /\ doc = None
  /\ copied = NoCopy
  /\ settings = DefaultSettings
  /\ NoLoaders

\* list[i] = v for an index at or beyond the length.  A list with members
\* whose target has no children would leave a hole in _children: the machine
\* has no such list.
SetIndex ==
  /\ steps < MaxOps
  /\ err = "none"
  /\ \E self \in DOMAIN lists, d \in {0, 1}, v \in {StrV(<<>>), StrV(<<"z">>), XmlV(5)} :
       /\ Ignored(nodes, lists, self) \/ Cardinality(Free(nodes)) >= 2
       /\ LET Done(res) == /\ nodes' = res.h
                           /\ lists' = res.ls
                           /\ err' = res.err
          IN  Done(XMLListSetProperty(nodes, lists, self,
                                      Len(lists[self].children) + d, v))
       /\ last' = IndexCall("setIndex", self, Len(lists[self].children) + d, v, 0)
  /\ steps' = steps + 1
  /\ UNCHANGED <<sin, sout, doc, copied, settings>>
  /\ UNCHANGED loaderVars

\* self.append(V) for another list V
AppendIndex ==
  /\ steps < MaxOps
  /\ err = "none"
  /\ \E self \in DOMAIN lists, V \in DOMAIN lists :
       /\ self # V
       /\ lists' = appendList(lists, self, V)
       /\ last' = IndexCall("append", self, 0, StrV(<<>>), V)
  /\ steps' = steps + 1
  /\ UNCHANGED <<nodes, err, sin, sout, doc, copied, settings>>
  /\ UNCHANGED loaderVars

\* 9.2.1.2 [[Put]] (P, V) of ASXMLList, step 3, for a name n that is no
\* index.  resolveValue returns the list itself, so an empty list finds
\* r._children.length = 0 and returns.
XMLListSetNamed(h, ls, self, n, isAttribute, v) ==
  LET r == self
      seeded == IF ls[self].children = <<>> /\ Len(ls[r].children) = 1
                THEN append(ls, self, h, ls[r].children[1])
                ELSE ls
  IN  IF ls[self].children = <<>> /\ Len(ls[r].children) # 1
      THEN ListResult(h, ls, "none")
      ELSE IF Len(seeded[self].children) = 1
      THEN LET Put(res) == ListResult(res.h, seeded, res.err)
           IN  Put(setProperty(h, seeded[self].children[1], n, isAttribute, v))
      ELSE ListResult(h, seeded, "XMLAssigmentOneItemLists")

\* list.n = v for the names b and d
SetNamed ==
  /\ steps < MaxOps
  /\ err = "none"
  /\ \E self \in DOMAIN lists, n \in ElementQNames, v \in {StrV(<<"z">>), XmlV(5)} :
       /\ Len(lists[self].children) = 1 =>
            ElementNeeds(nodes, lists[self].children[1], n, v) <= Cardinality(Free(nodes))
       /\ LET Done(res) == /\ nodes' = res.h
                           /\ lists' = res.ls
                           /\ err' = res.err
          IN  Done(XMLListSetNamed(nodes, lists, self, n, FALSE, v))
       /\ last' = [IndexCall("setNamed", self, 0, v, 0) EXCEPT !.n = n]
  /\ steps' = steps + 1
  /\ UNCHANGED <<sin, sout, doc, copied, settings>>
  /\ UNCHANGED loaderVars

NextIndex ==
  \/ SetIndex
  \/ AppendIndex
  \/ SetNamed

SpecIndex == InitIndex /\ [][NextIndex]_vars

\* C18 as stated: append(V) with V an empty XMLList is a no-op: the receiver
\* has the same members in the same order and the same target object and
\* target property after the call as before it, whatever the target of V.
C18_AppendEmptyIsNoOp ==
  [][(last'.op = "append" /\ lists[last'.V].children = <<>>) =>
       lists'[last'.self] = lists[last'.self]]_vars

\* C18 amended: append(V) with V an empty XMLList leaves the members of the
\* receiver as they were and gives the receiver the target object and the
\* target property of V; no other list and no tree changes.
C18_AppendEmptyTakesTarget ==
  [][(last'.op = "append" /\ lists[last'.V].children = <<>>) =>
       /\ lists'[last'.self].children = lists[last'.self].children
       /\ lists'[last'.self].targetObject = lists[last'.V].targetObject
       /\ lists'[last'.self].targetProperty = lists[last'.V].targetProperty
       /\ \A k \in DOMAIN lists : k # last'.self => lists'[k] = lists[k]
       /\ nodes' = nodes]_vars

\* the list a.b, with the target a, has taken the empty list with the text
\* node as its target: its member stays, its target is the text node
C18_Witness ==
  /\ last.op = "append"
  /\ last.self = 2
  /\ last.V = 4
  /\ lists[4].children = <<>>
  /\ lists[2].children = <<2>>
  /\ lists[2].targetObject = 4

C20_InsertsAfterLastMember ==
  [][(/\ last'.op = "setIndex"
      /\ ~IgnoredWithoutTarget(nodes, lists, last'.self)) =>
       LET self == last'.self
           r == ResolvedTarget(lists, self)
           old == nodes[r].children
           new == nodes'[r].children
           mine == lists[self].children
           grown == lists'[self].children
       IN  /\ Len(new) = Len(old) + 1
           /\ Len(grown) = Len(mine) + 1
           /\ SubSeq(grown, 1, Len(mine)) = mine
           /\ nodes'[grown[Len(grown)]].parent = r
           /\ \E k \in 1..Len(new) :
                /\ new[k] = grown[Len(grown)]
                /\ SubSeq(new, 1, k - 1) \o SubSeq(new, k + 1, Len(new)) = old
                /\ (mine # <<>> /\ k > 1) => new[k - 1] = mine[Len(mine)]
                /\ (mine # <<>> /\ mine[Len(mine)] \in Range(old)) => k > 1]_vars

\* C21: list.name = v on an XMLList has an effect only when the list holds
\* one member, and then it is the named assignment of that member; for every
\* other size (0, or 2 and more) the call raises an error and neither the
\* list nor any tree is changed.
C21_NamedAssignmentOneMember ==
  [][last'.op = "setNamed" =>
       LET self == last'.self
           mine == lists[self].children
       IN  IF Len(mine) = 1
           THEN /\ lists' = lists
                /\ nodes' = setProperty(nodes, mine[1], last'.n, FALSE, last'.v).h
                /\ err' = setProperty(nodes, mine[1], last'.n, FALSE, last'.v).err
           ELSE /\ err' # "none"
                /\ nodes' = nodes
                /\ lists' = lists]_vars

(***************************************************************************)
(* The namespace machine: declarations are added to one element with       *)
(* addNamespace and with addInScopeNamespace.                              *)
(***************************************************************************)
MaxDecls == 3

Declarations ==
  {ASNamespace(<<"p">>, <<"u">>), ASNamespace(<<"p">>, <<"w">>),
   ASNamespace(<<"q">>, <<"u">>), ASNamespace(<<"q">>, <<"w">>),
   [prefix |-> <<>>, uri |-> <<"w">>], ASNamespace1(<<"w">>)}

InitNs ==
  /\ \E uri \in {<<>>, <<"u">>} :
       nodes = [n \in NodeIds |->
                  IF n = 1
                  THEN init(Element, uri, <<"a">>, IF uri = <<>> THEN Undef ELSE <<"p">>)
                  ELSE FreeNode]
  /\ lists = <<>>
  /\ err = "none"
  /\ last = [op |-> "none", self |-> None, ns |-> NoNamespace]
  /\ steps = 0
  /\ sin = <<>>
  /\ sout = <<>>
  /\ doc = None
  /\ copied = NoCopy
  /\ settings = DefaultSettings
  /\ NoLoaders

NsResult(res, op, ns) ==
  /\ nodes' = res.h
  /\ err' = res.err
  /\ last' = [op |-> op, self |-> 1, ns |-> ns]
  /\ UNCHANGED <<lists, steps, sin, sout, doc, copied, settings>>
  /\ UNCHANGED loaderVars

NsAddNamespace ==
  \E ns \in Declarations :
    /\ Len(nodes[1].ns) < MaxDecls
    /\ NsResult(addNamespace(nodes, 1, ns), "addNamespace", ns)

NsAddInScopeNamespace ==
  \E ns \in Declarations :
    /\ nodes[1].kind = Element
    /\ NsResult(Ok(addInScopeNamespace(nodes, 1, ns)), "addInScopeNamespace", ns)

NextNs ==
  \/ NsAddNamespace
  \/ NsAddInScopeNamespace

SpecNs == InitNs /\ [][NextNs]_vars

\* C22: after addInScopeNamespace(ns) on an Element with ns.prefix defined
\* (but for the prefix "" on an element whose name has the uri "") the
\* in-scope namespaces of the element hold a declaration with the prefix and
\* the uri of ns, added when no declaration had the prefix and put in the
\* place of a declaration of that prefix with another uri, and no second
\* declaration with that prefix remains.
C22_AddInScopeNamespace ==
  [][(/\ last'.op = "addInScopeNamespace"
      /\ last'.ns.prefix # Undef
      /\ ~(last'.ns.prefix = <<>> /\ nodes[1].name.uri = <<>>)) =>
       LET now == nodes'[1].ns
       IN  /\ \E k \in 1..Len(now) : now[k] = last'.ns
           /\ \A j, k \in 1..Len(now) :
                (now[j].prefix = last'.ns.prefix /\ now[k].prefix = last'.ns.prefix)
                  => j = k]_vars

(***************************************************************************)
(* The descendants machine: one query on a tree of depth two.              *)
(***************************************************************************)
\* the test of descendantsInto on the node v for the name n: no kind is asked
MatchesDescendant(h, v, n) ==
  IsAnyName(n) \/ (n.localName = h[v].name.localName /\ n.uri = h[v].name.uri)

RECURSIVE SelectDescendants(_, _, _)
SelectDescendants(h, s, n) ==
  IF s = <<>> THEN <<>>
  ELSE (IF MatchesDescendant(h, Head(s), n) THEN <<Head(s)>> ELSE <<>>)
       \o SelectDescendants(h, Tail(s), n)

RECURSIVE descendantsInto(_, _, _, _), DescendEach(_, _, _, _)
\* ASXML.descendantsInto: the members of xl after the call
descendantsInto(h, self, n, xl) ==
  IF h[self].kind # Element THEN xl
  ELSE DescendEach(h, h[self].children, n,
                   xl \o SelectDescendants(h, IF n.attr THEN h[self].attributes
                                              ELSE h[self].children, n))

\* this._children.forEach(v => v.descendantsInto(name, xl))
DescendEach(h, s, n, xl) ==
  IF s = <<>> THEN xl
  ELSE DescendEach(h, Tail(s), n, descendantsInto(h, Head(s), n, xl))

DescendantNames ==
  {ASQName(NoNamespace, <<"b">>, FALSE), ASQName(NoNamespace, <<"t">>, FALSE),
   AnyQName, ASQName(NoNamespace, <<"x">>, TRUE), ASQName(NoNamespace, <<"*">>, TRUE)}

InitDesc ==
  /\ \E k2 \in {Element, ProcessingInstruction, Text},
        k4 \in {Element, ProcessingInstruction, Text, Unknown},
        n3 \in {<<"b">>, <<"t">>}, a1 \in BOOLEAN, a2 \in BOOLEAN :
       /\ k4 # Unknown => k2 = Element
       /\ a2 => k2 = Element
       /\ nodes = [n \in NodeIds |->
                     CASE n = 1 -> [Elem(<<"a">>, <<2, 3>>, None) EXCEPT
                                      !.attributes = IF a1 THEN <<5>> ELSE <<>>]
                       [] n = 2 ->
                            IF k2 = Element
                            THEN [Elem(<<"b">>, IF k4 = Unknown THEN <<>> ELSE <<4>>, 1)
                                    EXCEPT !.attributes = IF a2 THEN <<6>> ELSE <<>>]
                            ELSE IF k2 = Text THEN Leaf(Text, <<"s">>, 1)
                            ELSE [init(ProcessingInstruction, <<>>, <<"t">>, Undef)
                                    EXCEPT !.parent = 1, !.value = <<"v">>]
                       [] n = 3 -> Elem(n3, <<>>, 1)
                       [] n = 4 /\ k4 = Element -> Elem(<<"b">>, <<>>, 2)
                       [] n = 4 /\ k4 = Text -> Leaf(Text, <<"s">>, 2)
                       [] n = 4 /\ k4 = ProcessingInstruction ->
                            [init(ProcessingInstruction, <<>>, <<"b">>, Undef)
                               EXCEPT !.parent = 2, !.value = <<"v">>]
                       [] n = 5 /\ a1 ->
                            [init(Attribute, <<>>, <<"x">>, Undef)
                               EXCEPT !.parent = 1, !.value = <<"1">>]
                       [] n = 6 /\ a2 ->
                            [init(Attribute, <<>>, <<"x">>, Undef)
                               EXCEPT !.parent = 2, !.value = <<"2">>]
                       [] OTHER -> FreeNode]
  /\ lists = <<>>
  /\ err = "none"
  /\ last = [op |-> "none", self |-> None, n |-> NoName, res |-> <<>>]
  /\ steps = 0
  /\ sin = <<>>
  /\ sout = <<>>
  /\ doc = None
  /\ copied = NoCopy
  /\ settings = DefaultSettings
  /\ NoLoaders

\* x.descendants(n) on the root or on its first child
Descendants ==
  /\ last.op = "none"
  /\ \E self \in {1, 2}, n \in DescendantNames :
       last' = [op |-> "descendants", self |-> self, n |-> n,
                res |-> descendantsInto(nodes, self, n, <<>>)]
  /\ UNCHANGED <<nodes, lists, err, steps, sin, sout, doc, copied, settings>>
  /\ UNCHANGED loaderVars

NextDesc == Descendants

SpecDesc == InitDesc /\ [][NextDesc]_vars

\* the nodes below x: its children and theirs
ChildrenBelow(h, x) ==
  {c \in Subtree(h, x, MaxNodes) : c # x /\ h[c].kind # Attribute}

\* C23: descendants(name) on an Element x returns each node of the subtree of
\* x that matches the query once and nothing else: for an attribute query
\* the matching attributes of x and of every element below it, and otherwise
\* the matching children at every depth, which for a named query are
\* elements only, never Text, Comment or ProcessingInstruction nodes.
C23_Descendants ==
  (last.op = "descendants" /\ nodes[last.self].kind = Element) =>
    LET res == last.res
        n == last.n
        below == ChildrenBelow(nodes, last.self)
        owners == {e \in below \cup {last.self} : nodes[e].kind = Element}
        expected ==
          IF n.attr
          THEN {a \in UNION {Range(nodes[e].attributes) : e \in owners} :
                  MatchesAttribute(nodes, a, n)}
          ELSE {c \in below :
                  IF IsAnyName(n) THEN TRUE
                  ELSE nodes[c].kind = Element /\ MatchesChild(nodes, c, n)}
    IN  /\ Range(res) = expected
        /\ \A i, j \in 1..Len(res) : res[i] = res[j] => i = j

(***************************************************************************)
(* The scope machine: parseXml on nested tags that declare and use the     *)
(* prefix p and the default namespace, one tag for each iteration.         *)
(***************************************************************************)
MaxTags == 4

Tag ==
  ("openP" :> <<"<", "a", " ", "x", "m", "l", "n", "s", ":", "p", "=", "\"", "u", "\"", ">">>) @@
  ("openPw" :> <<"<", "a", " ", "x", "m", "l", "n", "s", ":", "p", "=", "\"", "w", "\"", ">">>) @@
  ("openD" :> <<"<", "a", " ", "x", "m", "l", "n", "s", "=", "\"", "w", "\"", ">">>) @@
  ("useP" :> <<"<", "p", ":", "b", "/", ">">>) @@
  ("plain" :> <<"<", "b", "/", ">">>) @@
  ("emptyP" :> <<"<", "p", ":", "c", " ", "x", "m", "l", "n", "s", ":", "p", "=", "\"", "u", "\"", "/", ">">>) @@
  ("close" :> <<"<", "/", "a", ">">>)

OpenTags == {"openP", "openPw", "openD"}

\* what a tag declares: the uri for the prefix p and the default namespace
TagFrame(f) ==
  [p |-> CASE f \in {"openP", "emptyP"} -> <<"u">>
           [] f = "openPw" -> <<"w">>
           [] OTHER -> Undef,
   d |-> IF f = "openD" THEN <<"w">> ELSE Undef]

\* the declarations of the elements that are open after the tags fs
RECURSIVE Frames(_)
Frames(fs) ==
  IF fs = <<>> THEN <<>>
  ELSE LET front == Frames(SubSeq(fs, 1, Len(fs) - 1))
           f == fs[Len(fs)]
       IN  IF f \in OpenTags THEN Append(front, TagFrame(f))
           ELSE IF f = "close" THEN SubSeq(front, 1, Len(front) - 1)
           ELSE front

\* the innermost declaration of the prefix p and of the default namespace
BoundP(frames) ==
  LET hits == {j \in 1..Len(frames) : frames[j].p # Undef}
  IN  IF hits = {} THEN Undef ELSE frames[CHOOSE j \in hits : \A m \in hits : m <= j].p

BoundDefault(frames) ==
  LET hits == {j \in 1..Len(frames) : frames[j].d # Undef}
  IN  IF hits = {} THEN defaultNamespace
      ELSE frames[CHOOSE j \in hits : \A m \in hits : m <= j].d

\* the sequences of up to n tags
RECURSIVE TagSeqs(_)
TagSeqs(n) ==
  IF n = 0 THEN {<<>>}
  ELSE TagSeqs(n - 1) \cup
       {Append(fs, f) : fs \in {x \in TagSeqs(n - 1) : Len(x) = n - 1},
                        f \in DOMAIN Tag}

RECURSIVE JoinedTags(_)
JoinedTags(fs) == IF fs = <<>> THEN <<>> ELSE Tag[Head(fs)] \o JoinedTags(Tail(fs))

\* no end tag comes without a start tag that is open
Nested(fs) ==
  \A k \in 1..Len(fs) : fs[k] = "close" => Frames(SubSeq(fs, 1, k - 1)) # <<>>

InitScope ==
  /\ \E fs \in {x \in TagSeqs(MaxTags) : Nested(x)} :
       /\ sin = JoinedTags(fs)
       /\ last = [op |-> "parseXml", frags |-> fs, i |-> 0, scopes |-> <<RootScope>>,
                  cur |-> 1, stack |-> <<>>]
  /\ nodes = [n \in NodeIds |-> IF n = 1 THEN init(Element, <<>>, <<>>, <<>>) ELSE FreeNode]
  /\ err = "none"
  /\ steps = 0
  /\ lists = <<>>
  /\ sout = <<>>
  /\ doc = None
  /\ copied = NoCopy
  /\ settings = DefaultSettings
  /\ NoLoaders

SpecScope == InitScope /\ [][NextParse]_vars

\* C24: during a parse the scope stack follows the nesting of the elements:
\* a declaration of a prefix or of the default namespace on an element
\* resolves the name of that element and of the elements in it, the
\* innermost declaration first; an end tag takes the scope of its element
\* off the stack and a self-closing element leaves the stack as it was, so
\* that the declaration is not seen by what follows; at the end of a
\* balanced input only the first scope remains.
C24_ScopesFollowNesting ==
  [][/\ (last.op = "parseXml" /\ last'.op = "parseXml" /\ steps' = steps + 1) =>
          LET fs == last.frags
              f == fs[steps + 1]
              before == Frames(SubSeq(fs, 1, steps))
              after == Frames(SubSeq(fs, 1, steps + 1))
              own == IF f = "close" THEN before ELSE Append(before, TagFrame(f))
              usesP == f \in {"useP", "emptyP"}
              then == last'.scopes
          IN  IF usesP /\ BoundP(own) = Undef THEN err' # "none"
              ELSE /\ err' = "none"
                   /\ Len(then) = 1 + Len(after)
                   /\ lookupNs(then, <<"p">>) = BoundP(after)
                   /\ lookupDefaultNs(then) = BoundDefault(after)
                   /\ f \in OpenTags => SubSeq(then, 1, Len(then) - 1) = last.scopes
                   /\ f = "close" =>
                        then = SubSeq(last.scopes, 1, Len(last.scopes) - 1)
                   /\ (f \notin OpenTags /\ f # "close") => then = last.scopes
                   /\ f # "close" =>
                        nodes'[Fresh(nodes)].name.uri =
                          (IF usesP THEN BoundP(own) ELSE BoundDefault(own))
     /\ (last'.op = "returned" /\ Frames(last'.frags) = <<>>) =>
          last'.scopes = <<RootScope>>]_vars

\* <a xmlns:p="u"><a xmlns:p="w"></a><p:b/> was parsed: the scope of the
\* inner element is gone and p:b has the uri u
C24_Witness ==
  /\ last.op = "parseXml"
  /\ last.frags = <<"openP", "openPw", "close", "useP">>
  /\ steps = 4
  /\ err = "none"
  /\ Len(last.scopes) = 2
  /\ \E n \in NodeIds : nodes[n].name.localName = <<"b">> /\ nodes[n].name.uri = <<"u">>

(***************************************************************************)
(* The scan machine: parseXml on inputs put together from single           *)
(* characters and from the delimiters of the markup.                       *)
(***************************************************************************)
MaxChunks == 3

Chunk ==
  ("lt" :> <<"<">>) @@ ("gt" :> <<">">>) @@ ("slash" :> <<"/">>) @@
  ("question" :> <<"?">>) @@ ("bang" :> <<"!">>) @@ ("equals" :> <<"=">>) @@
  ("quote" :> <<"\"">>) @@ ("space" :> <<" ">>) @@ ("letter" :> <<"a">>) @@
  ("amp" :> <<"&">>) @@ ("tag" :> <<"<", "a">>) @@
  ("attribute" :> <<" ", "x", "=", "\"", "1", "\"">>) @@
  ("commentStart" :> <<"<", "!", "-", "-">>) @@ ("commentEnd" :> <<"-", "-", ">">>) @@
  ("cdataStart" :> <<"<", "!", "[", "C", "D", "A", "T", "A", "[">>) @@
  ("cdataEnd" :> <<"]", "]", ">">>) @@
  ("doctype" :> <<"<", "!", "D", "O", "C", "T", "Y", "P", "E">>) @@
  ("bracket" :> <<"[">>) @@ ("piStart" :> <<"<", "?", "t">>) @@
  ("piEnd" :> <<"?", ">">>)

RECURSIVE ChunkSeqs(_)
ChunkSeqs(n) ==
  IF n = 0 THEN {<<>>}
  ELSE ChunkSeqs(n - 1) \cup
       {Append(fs, f) : fs \in {x \in ChunkSeqs(n - 1) : Len(x) = n - 1},
                        f \in DOMAIN Chunk}

RECURSIVE JoinedChunks(_)
JoinedChunks(fs) == IF fs = <<>> THEN <<>> ELSE Chunk[Head(fs)] \o JoinedChunks(Tail(fs))

InitScan ==
  /\ \E fs \in ChunkSeqs(MaxChunks) :
       /\ sin = JoinedChunks(fs)
       /\ last = [op |-> "parseXml", frags |-> fs, i |-> 0, scopes |-> <<RootScope>>,
                  cur |-> 1, stack |-> <<>>]
  /\ nodes = [n \in NodeIds |-> IF n = 1 THEN init(Element, <<>>, <<>>, <<>>) ELSE FreeNode]
  /\ err = "none"
  /\ steps = 0
  /\ lists = <<>>
  /\ sout = <<>>
  /\ doc = None
  /\ copied = NoCopy
  /\ settings = DefaultSettings
  /\ NoLoaders

SpecScan == InitScan /\ [][NextParse]_vars

C26_Acyclic ==
  \A n \in Live :
    /\ AncestorWalk(nodes, nodes[n].parent, n, MaxNodes) = "end"
    /\ \A c \in Range(nodes[n].children) : n \notin Subtree(nodes, c, MaxNodes)

(***************************************************************************)
(* The comparison machine: two elements with two attributes each, as the   *)
(* parser builds them from <a x="1" x="1"/>, are compared both ways.       *)
(***************************************************************************)
Attr(n, val, par) ==
  [init(Attribute, <<>>, n, Undef) EXCEPT !.parent = par, !.value = val]

InitEq ==
  /\ \E names \in [3..6 -> {<<"x">>, <<"y">>}], values \in [3..6 -> {<<"1">>, <<"2">>}] :
       nodes = [n \in NodeIds |->
                  CASE n \in {1, 2} ->
                         [Elem(<<"a">>, <<>>, None) EXCEPT
                            !.attributes = IF n = 1 THEN <<3, 4>> ELSE <<5, 6>>]
                    [] n \in 3..6 -> Attr(names[n], values[n], IF n <= 4 THEN 1 ELSE 2)
                    [] OTHER -> FreeNode]
  /\ lists = <<>>
  /\ err = "none"
  /\ last = [op |-> "none", x |-> None, y |-> None, res |-> FALSE, back |-> FALSE]
  /\ steps = 0
  /\ sin = <<>>
  /\ sout = <<>>
  /\ doc = None
  /\ copied = NoCopy
  /\ settings = DefaultSettings
  /\ NoLoaders

\* x._deepEquals(y) and y._deepEquals(x)
DeepEquals ==
  /\ last.op = "none"
  /\ \E x \in {1, 2}, y \in {1, 2} :
       last' = [op |-> "deepEquals", x |-> x, y |-> y,
                res |-> deepEquals(nodes, x, y), back |-> deepEquals(nodes, y, x)]
  /\ UNCHANGED <<nodes, lists, err, steps, sin, sout, doc, copied, settings>>
  /\ UNCHANGED loaderVars

NextEq == DeepEquals

SpecEq == InitEq /\ [][NextEq]_vars

\* C27: deepEquals is symmetric: for all nodes x and y, also elements with
\* several attributes of the same name, x.deepEquals(y) and y.deepEquals(x)
\* give the same result.
C27_DeepEqualsSymmetric ==
  last.op = "deepEquals" => (last.res <=> last.back)

(***************************************************************************)
(* The delete machine: attributes and child elements of one element are    *)
(* deleted by name.                                                        *)
(***************************************************************************)
RECURSIVE DeleteAttributes(_, _, _, _)
\* the loop of deleteProperty over the attributes: a match loses its parent,
\* the others go to the new array
DeleteAttributes(h, attributes, n, kept) ==
  IF attributes = <<>> THEN [h |-> h, kept |-> kept]
  ELSE IF MatchesAttribute(h, Head(attributes), n)
  THEN DeleteAttributes([h EXCEPT ![Head(attributes)].parent = None],
                        Tail(attributes), n, kept)
  ELSE DeleteAttributes(h, Tail(attributes), n, Append(kept, Head(attributes)))

\* ASXML.deleteProperty for a name that is no index: the element branch only
\* asks whether some child matches and returns
deleteProperty(h, self, n, isAttribute) ==
  IF isAttribute
  THEN LET Kept(r) == [r.h EXCEPT ![self].attributes = r.kept]
       IN  Kept(DeleteAttributes(h, h[self].attributes, n, <<>>))
  ELSE h

DeleteNames ==
  {ASQName(NoNamespace, <<"b">>, FALSE), ASQName(NoNamespace, <<"d">>, FALSE), AnyQName,
   ASQName(NoNamespace, <<"x">>, TRUE), ASQName(NoNamespace, <<"y">>, TRUE),
   ASQName(NoNamespace, <<"*">>, TRUE)}

InitDelete ==
  /\ \E k3 \in {"b", "c", "text"}, k4 \in {"none", "b"}, a6 \in {"none", "x", "y"} :
       nodes = [n \in NodeIds |->
                  CASE n = 1 ->
                         [Elem(<<"a">>, <<2, 3>> \o (IF k4 = "none" THEN <<>> ELSE <<4>>),
                               None)
                            EXCEPT !.attributes =
                                     <<5>> \o (IF a6 = "none" THEN <<>> ELSE <<6>>)]
                    [] n = 2 -> Elem(<<"b">>, <<>>, 1)
                    [] n = 3 -> IF k3 = "text" THEN Leaf(Text, <<"y">>, 1)
                                ELSE Elem(<<k3>>, <<>>, 1)
                    [] n = 4 /\ k4 = "b" -> Elem(<<"b">>, <<>>, 1)
                    [] n = 5 -> Attr(<<"x">>, <<"1">>, 1)
                    [] n = 6 /\ a6 # "none" -> Attr(<<a6>>, <<"2">>, 1)
                    [] OTHER -> FreeNode]
  /\ lists = <<>>
  /\ err = "none"
  /\ last = [op |-> "none", self |-> None, n |-> NoName]
  /\ steps = 0
  /\ sin = <<>>
  /\ sout = <<>>
  /\ doc = None
  /\ copied = NoCopy
  /\ settings = DefaultSettings
  /\ NoLoaders

\* delete x.n and delete x.@n
DeleteProperty ==
  /\ steps < MaxOps
  /\ \E n \in DeleteNames :
       /\ nodes' = deleteProperty(nodes, 1, n, n.attr)
       /\ last' = [op |-> "deleteProperty", self |-> 1, n |-> n]
  /\ steps' = steps + 1
  /\ UNCHANGED <<lists, err, sin, sout, doc, copied, settings>>
  /\ UNCHANGED loaderVars

NextDelete == DeleteProperty

SpecDelete == InitDelete /\ [][NextDelete]_vars

\* C28: after deleteProperty(name, isAttribute) on an Element x no attribute
\* of x matches the name for an attribute delete, and no child element of x
\* matches it for an element delete; every removed node has the parent none
\* and the attributes and children that do not match keep their identity
\* and order.
C28_DeleteProperty ==
  [][last'.op = "deleteProperty" =>
       LET x == last'.self
           n == last'.n
           gone == IF n.attr
                   THEN {a \in Range(nodes[x].attributes) : MatchesAttribute(nodes, a, n)}
                   ELSE {c \in Range(nodes[x].children) :
                           nodes[c].kind = Element /\ MatchesChild(nodes, c, n)}
       IN  /\ nodes'[x].attributes =
                SelectSeq(nodes[x].attributes, LAMBDA a : a \notin gone)
           /\ nodes'[x].children =
                SelectSeq(nodes[x].children, LAMBDA c : c \notin gone)
           /\ \A g \in gone : nodes'[g].parent = None]_vars

(***************************************************************************)
(* flash.display.Loader: the static load queue and the two batches of      *)
(* event processing.  A Loader is a record; its LoaderInfo is kept in the  *)
(* fields file, bytesLoaded, bytesTotal, framesLoaded (of the file) and    *)
(* frames (of the root symbol).  The FileLoader is the environment: it     *)
(* calls onLoadOpen, onLoadProgress and onImageBytesLoaded while it is     *)
(* attached.  dispatched keeps, per Loader, the LoaderInfo events of the   *)
(* load in progress; turn counts the calls of processEvents.               *)
(***************************************************************************)
\* number of Loader objects
MaxLoaders == 2

\* largest bytesTotal of a file
MaxBytes == 2

\* number of calls in one behaviour
MaxCalls == 7

LoaderIds == 1..MaxLoaders

LoadStatus == [Unloaded |-> 0, Opened |-> 1, Initialized |-> 2, Complete |-> 3]

LoadingType == [External |-> 0, Bytes |-> 1]

\* _loadingType before the first load
NoLoadingType == 0 - 1

\* _queuedLoadUpdate = null
NullUpdate == [set |-> FALSE, bytesLoaded |-> 0]

LoadProgressUpdate(b) == [set |-> TRUE, bytesLoaded |-> b]

\* new Loader()
NewLoader ==
  [loadStatus |-> LoadStatus.Unloaded, loadingType |-> NoLoadingType,
   content |-> FALSE, fileLoader |-> FALSE, queuedLoadUpdate |-> NullUpdate,
   imageSymbol |-> "none", file |-> "none", framesLoaded |-> 0, frames |-> 0,
   bytesLoaded |-> 0, bytesTotal |-> 0]

\* an event as loaderInfo.dispatchEvent gets it, with the turn it comes in
LoaderEvent(type, t, bytesLoaded, bytesTotal) ==
  [type |-> type, turn |-> t, bytesLoaded |-> bytesLoaded, bytesTotal |-> bytesTotal]

InitLoader ==
  /\ loaders = [l \in LoaderIds |-> NewLoader]
  /\ loadQueue = <<>>
  /\ dispatched = [l \in LoaderIds |-> <<>>]
  /\ turn = 0
  /\ nodes = [n \in NodeIds |-> FreeNode]
  /\ lists = <<>>
  /\ err = "none"
  /\ last = [op |-> "none", self |-> None]
  /\ steps = 0
  /\ sin = <<>>
  /\ sout = <<>>
  /\ doc = None
  /\ copied = NoCopy
  /\ settings = DefaultSettings

\* queue.splice(queue.indexOf(self), 1), nothing when self is not in it
QueueWithout(queue, self) == SelectSeq(queue, LAMBDA l : l # self)

\* Loader.close with LoaderInfo.reset and FileLoader.abortLoad
close(ls, queue, self) ==
  [loaders |-> [ls EXCEPT ![self].file = "none", ![self].bytesLoaded = 0,
                          ![self].bytesTotal = 0, ![self].framesLoaded = 0,
                          ![self].frames = 0, ![self].fileLoader = FALSE],
   queue |-> QueueWithout(queue, self)]

\* the body that load and loadBytes share
StartLoad(self, type) ==
  LET c == close(loaders, loadQueue, self)
  IN  /\ loaders' = [c.loaders EXCEPT ![self].loadingType = type,
                                      ![self].fileLoader = TRUE,
                                      ![self].queuedLoadUpdate = NullUpdate]
      /\ loadQueue' = Append(c.queue, self)
      /\ dispatched' = [dispatched EXCEPT ![self] = <<>>]

LoaderCall(op, self) ==
  /\ steps < MaxCalls
  /\ steps' = steps + 1
  /\ last' = [op |-> op, self |-> self]
  /\ UNCHANGED <<nodes, lists, sin, sout, doc, copied, settings>>

Load ==
  \E self \in LoaderIds :
    /\ StartLoad(self, LoadingType.External)
    /\ LoaderCall("load", self)
    /\ UNCHANGED <<err, turn>>

LoadBytes ==
  \E self \in LoaderIds :
    /\ StartLoad(self, LoadingType.Bytes)
    /\ LoaderCall("loadBytes", self)
    /\ UNCHANGED <<err, turn>>

Close ==
  \E self \in LoaderIds :
    /\ LET c == close(loaders, loadQueue, self)
       IN  loaders' = c.loaders /\ loadQueue' = c.queue
    /\ LoaderCall("close", self)
    /\ UNCHANGED <<err, turn, dispatched>>

\* Loader._unload
Unload ==
  \E self \in LoaderIds :
    /\ IF loaders[self].loadStatus < LoadStatus.Initialized
       THEN /\ loaders' = [loaders EXCEPT ![self].loadStatus = LoadStatus.Unloaded]
            /\ UNCHANGED loadQueue
       ELSE LET c == close(loaders, loadQueue, self)
            IN  /\ loaders' = [c.loaders EXCEPT ![self].content = FALSE,
                                                ![self].loadStatus = LoadStatus.Unloaded]
                /\ loadQueue' = c.queue
    /\ LoaderCall("unload", self)
    /\ UNCHANGED <<err, turn, dispatched>>

\* the FileLoader has the head of the file: LoaderInfo.setFile
OnLoadOpen ==
  \E self \in LoaderIds, file \in {"swf", "image"}, total \in 1..MaxBytes :
    /\ loaders[self].fileLoader
    /\ loaders[self].file = "none"
    /\ loaders' = [loaders EXCEPT ![self].file = file, ![self].bytesTotal = total]
    /\ LoaderCall("onLoadOpen", self)
    /\ UNCHANGED <<err, turn, dispatched, loadQueue>>

\* the FileLoader has more of the file
OnLoadProgress ==
  \E self \in LoaderIds :
    /\ loaders[self].fileLoader
    /\ loaders[self].file # "none"
    /\ \E b \in 1..loaders[self].bytesTotal, f \in loaders[self].framesLoaded..1 :
         loaders' = [loaders EXCEPT ![self].queuedLoadUpdate = LoadProgressUpdate(b),
                                    ![self].framesLoaded = f]
    /\ LoaderCall("onLoadProgress", self)
    /\ UNCHANGED <<err, turn, dispatched, loadQueue>>

\* onImageBytesLoaded makes a symbol that is not ready; the asset resolver
\* makes it ready later
OnImageBytesLoaded ==
  \E self \in LoaderIds :
    /\ loaders[self].fileLoader
    /\ loaders[self].file = "image"
    /\ loaders[self].imageSymbol # "unready"
    /\ loaders' = [loaders EXCEPT ![self].imageSymbol = "unready"]
    /\ LoaderCall("onImageBytesLoaded", self)
    /\ UNCHANGED <<err, turn, dispatched, loadQueue>>

SymbolReady ==
  \E self \in LoaderIds :
    /\ loaders[self].imageSymbol = "unready"
    /\ loaders' = [loaders EXCEPT ![self].imageSymbol = "ready"]
    /\ LoaderCall("ready", self)
    /\ UNCHANGED <<err, turn, dispatched, loadQueue>>

\* the state the two loops of processEvents work on
Processing(ls, queue, d, failed, t) ==
  [loaders |-> ls, queue |-> queue, dispatched |-> d, failed |-> failed, turn |-> t]

\* loaderInfo.dispatchEvent
Dispatch(s, self, type, bytesLoaded) ==
  [s EXCEPT !.dispatched[self] =
              Append(@, LoaderEvent(type, s.turn, bytesLoaded,
                                    s.loaders[self].bytesTotal))]

\* the assertion at the head of both loops
Visited(s, self) ==
  [s EXCEPT !.failed = @ \/ s.loaders[self].loadStatus = LoadStatus.Complete]

\* processEarlyEvents: "if (instance._loadStatus === LoadStatus.Initialized ..."
EarlyComplete(s, self) ==
  IF /\ s.loaders[self].loadStatus = LoadStatus.Initialized
     /\ s.loaders[self].bytesLoaded = s.loaders[self].bytesTotal
  THEN Dispatch([s EXCEPT !.queue = QueueWithout(s.queue, self),
                          !.loaders[self].loadStatus = LoadStatus.Complete],
                self, "complete", s.loaders[self].bytesLoaded)
  ELSE s

\* processEarlyEvents: "if (instance._loadStatus === LoadStatus.Opened ..."
EarlyInit(s, self) ==
  IF s.loaders[self].loadStatus = LoadStatus.Opened /\ s.loaders[self].content
  THEN [Dispatch(s, self, "init", s.loaders[self].bytesLoaded)
          EXCEPT !.loaders[self].loadStatus = LoadStatus.Initialized]
  ELSE s

\* one round of the loop of processEarlyEvents
EarlyVisit(s, self) ==
  IF s.loaders[self].file = "image"
  THEN IF s.loaders[self].imageSymbol # "ready" \/ s.loaders[self].queuedLoadUpdate.set
       THEN s
       ELSE EarlyComplete(EarlyInit([s EXCEPT !.loaders[self].content = TRUE], self), self)
  ELSE EarlyComplete(EarlyInit(s, self), self)

RECURSIVE processEarlyEvents(_, _)
processEarlyEvents(s, i) ==
  IF i > Len(s.queue) THEN s
  ELSE LET Next1(r) == processEarlyEvents(r, IF Len(r.queue) < Len(s.queue) THEN i ELSE i + 1)
       IN  Next1(EarlyVisit(Visited(s, s.queue[i]), s.queue[i]))

\* Loader._applyLoadUpdate, as far as the content is concerned
applyLoadUpdate(l, update) ==
  LET l1 == [l EXCEPT !.bytesLoaded = update.bytesLoaded]
  IN  IF l.file # "swf" \/ l.framesLoaded = 0 \/ l.framesLoaded = l.frames
      THEN l1
      ELSE [l1 EXCEPT !.content = TRUE, !.frames = l.framesLoaded]

\* processLateEvents: "if (update) ..."
LateUpdate(s, self, update) ==
  IF update.set
  THEN Dispatch([s EXCEPT !.loaders[self] = applyLoadUpdate(@, update)],
                self, "progress", update.bytesLoaded)
  ELSE s

\* processLateEvents: "if (instance._loadStatus === LoadStatus.Unloaded) ..."
LateOpen(s, self) ==
  IF s.loaders[self].loadStatus = LoadStatus.Unloaded
  THEN LET Opened(r) == [Dispatch(r, self, "progress", 0)
                           EXCEPT !.loaders[self].loadStatus = LoadStatus.Opened]
       IN  Opened(IF s.loaders[self].loadingType = LoadingType.External
                  THEN Dispatch(s, self, "open", 0)
                  ELSE s)
  ELSE s

\* one round of the loop of processLateEvents
LateVisit(s, self) ==
  IF /\ ~s.loaders[self].queuedLoadUpdate.set \/ s.loaders[self].bytesTotal = 0
     /\ s.loaders[self].loadStatus # LoadStatus.Opened
  THEN s
  ELSE LateUpdate(LateOpen([s EXCEPT !.loaders[self].queuedLoadUpdate = NullUpdate], self),
                  self, s.loaders[self].queuedLoadUpdate)

RECURSIVE processLateEvents(_, _)
processLateEvents(s, i) ==
  IF i > Len(s.queue) THEN s
  ELSE processLateEvents(LateVisit(Visited(s, s.queue[i]), s.queue[i]), i + 1)

\* Loader.processEvents; a failed assertion is kept in err
ProcessEvents ==
  /\ LET Done(s) ==
           /\ loaders' = s.loaders
           /\ loadQueue' = s.queue
           /\ dispatched' = s.dispatched
           /\ err' = IF s.failed THEN "assert" ELSE err
     IN  Done(processLateEvents(
                processEarlyEvents(
                  Processing(loaders, loadQueue, dispatched, FALSE, turn + 1), 1), 1))
  /\ turn' = turn + 1
  /\ LoaderCall("processEvents", None)

NextLoader ==
  \/ Load
  \/ LoadBytes
  \/ Close
  \/ Unload
  \/ OnLoadOpen
  \/ OnLoadProgress
  \/ OnImageBytesLoaded
  \/ SymbolReady
  \/ ProcessEvents

SpecLoader == InitLoader /\ [][NextLoader]_vars

\* C29: in every sequence of load, loadBytes, close, unload, onLoadProgress
\* and processEvents calls, no Loader of the load queue has the status
\* Complete when processEarlyEvents or processLateEvents visits it, and no
\* Loader is in the queue twice.
C29_QueueNeverComplete ==
  /\ err # "assert"
  /\ \A i, j \in 1..Len(loadQueue) : loadQueue[i] = loadQueue[j] => i = j

\* C30: the events of one load are ordered: after load() OPEN and the first
\* PROGRESS with bytesLoaded = 0 come first, INIT comes only after them and in
\* a strictly later turn of processEvents, COMPLETE comes only after INIT and
\* only with bytesLoaded equal to bytesTotal, and at most once; after
\* loadBytes() the same holds and no OPEN is dispatched.
C30_EventsOrdered ==
  \A l \in LoaderIds :
    LET e == dispatched[l]
        Places(type) == {k \in 1..Len(e) : e[k].type = type}
        first == IF loaders[l].loadingType = LoadingType.External THEN 2 ELSE 1
    IN  e # <<>> =>
          /\ Len(e) >= first
          /\ e[first].type = "progress" /\ e[first].bytesLoaded = 0
          /\ IF loaders[l].loadingType = LoadingType.External
             THEN e[1].type = "open"
             ELSE Places("open") = {}
          /\ \A k \in Places("init") : k > first /\ e[k].turn > e[first].turn
          /\ \A k \in Places("complete") :
               /\ \E j \in Places("init") : j < k
               /\ e[k].bytesLoaded = e[k].bytesTotal
          /\ Cardinality(Places("complete")) <= 1

====
